---- MODULE Spec2Model ----
(***************************************************************************)
(* A model of grao_tables_parsing.py: the settlement disambiguation loop   *)
(* (disambiguate_data) with its retry ladder and its pickled stores, the   *)
(* record assembler, the data-line parser, the name normalizer, the        *)
(* resolver's selection rule and the period merger.                        *)
(*                                                                         *)
(* Text is modelled as sequences of Unicode code points, so that find,     *)
(* replace, split, strip and lower are computed character by character.    *)
(***************************************************************************)
EXTENDS Integers, Sequences, FiniteSets, TLC

VARIABLES
    \* ---- disambiguate_data: program state
    key_of_name,      \* the input: raw index triple -> its fix_names'd key
    sdt_list,         \* list(set(...)) of the run: a sequence of raw names
    processed_sdts,   \* dict key -> code            ('triple_to_ekatte')
    reverse_dict,     \* dict code -> raw name       ('ekatte_to_triple')
    failiures,        \* set of keys with no match in this run
    val,              \* the local `val`: unbound, None or (key, code)
    i,                \* position of the for loop in sdt_list
    attempt,          \* which of the nested try blocks is executing (1..4)
    raising,          \* a ValueError is propagating through `finally`
    pc,               \* position of the process
    run,              \* number of the process run
    \* ---- persisted blobs written by PickleWrapper
    file_t2e, file_e2t, file_fail,
    \* ---- observation of the run (not read by the program)
    calls,            \* pipeline calls made for the key being processed
    waits,            \* time.sleep arguments for the key being processed
    lastOutcome,      \* what the latest pipeline call did
    callsRun,         \* per key: pipeline calls made in this run
    resolvedBefore,   \* keys whose resolution finished in an earlier run
    finished,         \* keys whose resolution finished in this run
    nomatch,          \* keys whose pipeline call returned None in this run
    failWrites,       \* number of writes of the failure set in this run
    snap,             \* the four mappings when the processing of a key began
    \* ---- parssed_lines_to_full_info_list
    reg_keys,         \* list(regions.keys()): header line numbers
    settlement_keys,  \* list(settlements_info.keys()): row line numbers
    pair,             \* position of the for loop in reg_keys_pairs
    sk_index,         \* index of the next row (0-based, as in the source)
    full_name_settlement_infos,  \* the output list
    asm_pc,           \* position of the assembler
    \* ---- a function under test: its argument, its result
    input, output,
    \* ---- the blob 'combined_tables' written by combine_data
    file_combined,
    \* ---- parse_lines
    data_tuple,       \* the argument: the lines and the layout of the document
    header_region,    \* parse_header_line.region: None or the region matched
    line_num,         \* position of the for loop (0-based, as in the source)
    municipality_ids, \* dict line number -> (region, municipality)
    settlements_info, \* dict line number -> SettlementInfo
    lines_pc          \* position of parse_lines

resolverVars == <<key_of_name, sdt_list, processed_sdts, reverse_dict, failiures,
                  val, i, attempt, raising, pc, run, file_t2e, file_e2t, file_fail,
                  calls, waits, lastOutcome, callsRun, resolvedBefore, finished,
                  nomatch, failWrites, snap>>
asmVars == <<reg_keys, settlement_keys, pair, sk_index,
             full_name_settlement_infos, asm_pc>>
callVars == <<input, output, file_combined>>
linesVars == <<data_tuple, header_region, line_num, municipality_ids, settlements_info,
               lines_pc>>
otherVars == <<asmVars, callVars, linesVars>>
vars == <<resolverVars, asmVars, callVars, linesVars>>

----------------------------------------------------------------------------
(* Bounds of the model *)
NumNames == 2
NumCodes == 2
MaxRuns == 2

Names == 1..NumNames
Keys == 1..NumNames
Codes == 1..NumCodes

(* Number of pipeline calls in the nested try ladder of disambiguate_data *)
MaxAttempts == 4
(* time.sleep arguments of the three except blocks *)
Sleep1 == 10
Sleep2 == 15
Sleep3 == 20

----------------------------------------------------------------------------
(* Python values *)
EmptyDict == [x \in {} |-> 0]
DictSet(d, k, v) == [x \in (DOMAIN d) \cup {k} |-> IF x = k THEN v ELSE d[x]]

Unbound == [tag |-> "unbound"]
None == [tag |-> "None"]
SettlementDataTuple(k, d) == [tag |-> "sdt", key |-> k, data |-> d]

NoFile == [st |-> "missing"]
Partial == [st |-> "partial"]
Pickled(d) == [st |-> "ok", data |-> d]

(* PickleWrapper.pickle_data: open(path, 'wb') truncates the blob, and     *)
(* pickle.dump then writes the whole object.                                *)
PickleOpen == Partial
PickleDump(data) == Pickled(data)

(* PickleWrapper.load_data followed by the isinstance guard of the caller: *)
(* a missing blob gives {}, a truncated one makes pickle.load raise.       *)
LoadRaises(f) == f.st = "partial"
(* A load that ignores what is stored *)
LoadDictFresh(f) == EmptyDict
LoadDict(f) == IF f.st = "ok" THEN f.data ELSE EmptyDict

(* A flat wait in place of the escalating one *)
DelayFlat(a) == Sleep1
(* The escalating waits of the except blocks, by failed attempt *)
Delay(a) == CASE a = 1 -> Sleep1 [] a = 2 -> Sleep2 [] OTHER -> Sleep3

(* What one call of settlement_disambiguation_pipeline can do: raise       *)
(* ValueError (fetch_raw_settlement_data, status != 200), return None      *)
(* (mach_key_with_code, no match) or return (key, code).                    *)
Outcomes == {[kind |-> "ValueError"], [kind |-> "None"]}
            \cup {[kind |-> "code", code |-> c] : c \in Codes}

Orderings(S) == {s \in [1..Cardinality(S) -> S] :
                      \A a, b \in 1..Cardinality(S) : a # b => s[a] # s[b]}

(* The raw names of the input and the keys fix_names gives them: several   *)
(* raw names may share a key.  Keys are numbered in order of appearance.   *)
KeyAssignments == {f \in [Names -> Keys] :
                     \A n \in Names : \A k \in 1..(f[n] - 1) :
                         \E m \in 1..(n - 1) : f[m] = k}

CurName == sdt_list[i]
CurKey == key_of_name[sdt_list[i]]

NoSnap == [t2e |-> EmptyDict, e2t |-> EmptyDict, ft2e |-> NoFile, fe2t |-> NoFile]
Snapshot == [t2e |-> processed_sdts, e2t |-> reverse_dict,
             ft2e |-> file_t2e, fe2t |-> file_e2t]

IdleLines ==
    /\ data_tuple = [data |-> <<>>, header_type |-> "Old", table_type |-> "Yearly"]
    /\ header_region = None
    /\ line_num = 0
    /\ municipality_ids = EmptyDict
    /\ settlements_info = EmptyDict
    /\ lines_pc = "idle"

IdleCall ==
    /\ input = [fn |-> "none"]
    /\ output = [status |-> "pending"]
    /\ file_combined = NoFile
    /\ IdleLines

IdleAssembler ==
    /\ reg_keys = <<>>
    /\ settlement_keys = <<>>
    /\ pair = 1
    /\ sk_index = 0
    /\ full_name_settlement_infos = <<>>
    /\ asm_pc = "idle"

----------------------------------------------------------------------------
(* disambiguate_data *)

ResolverFresh ==
    /\ sdt_list = <<>>
    /\ processed_sdts = EmptyDict
    /\ reverse_dict = EmptyDict
    /\ failiures = {}
    /\ val = Unbound
    /\ i = 1
    /\ attempt = 1
    /\ raising = FALSE
    /\ run = 1
    /\ file_t2e = NoFile
    /\ file_e2t = NoFile
    /\ file_fail = NoFile
    /\ calls = 0
    /\ waits = <<>>
    /\ lastOutcome = [kind |-> "none"]
    /\ callsRun = [k \in Keys |-> 0]
    /\ resolvedBefore = {}
    /\ finished = {}
    /\ nomatch = {}
    /\ failWrites = 0
    /\ snap = NoSnap

IdleResolver ==
    /\ key_of_name = [n \in Names |-> 1]
    /\ pc = "idle"
    /\ ResolverFresh

InitResolver ==
    /\ key_of_name \in KeyAssignments
    /\ pc = "start"
    /\ ResolverFresh
    /\ IdleAssembler
    /\ IdleCall

(* The memory of a process that is gone *)
Forget ==
    /\ sdt_list' = <<>>
    /\ processed_sdts' = EmptyDict
    /\ reverse_dict' = EmptyDict
    /\ failiures' = {}
    /\ val' = Unbound
    /\ i' = 1
    /\ attempt' = 1
    /\ raising' = FALSE

ForgetObserved ==
    /\ calls' = 0
    /\ waits' = <<>>
    /\ lastOutcome' = [kind |-> "none"]
    /\ callsRun' = [k \in Keys |-> 0]
    /\ nomatch' = {}
    /\ failWrites' = 0
    /\ snap' = NoSnap

(* Lines 502-518: load both stores, build sdt_list, failiures = set() *)
Load ==
    /\ pc = "start"
    /\ IF LoadRaises(file_t2e) \/ LoadRaises(file_e2t)
       THEN /\ pc' = "load_error"
            /\ UNCHANGED <<sdt_list, processed_sdts, reverse_dict>>
       ELSE /\ processed_sdts' = LoadDict(file_t2e)
            /\ reverse_dict' = LoadDict(file_e2t)
            /\ sdt_list' \in Orderings(Names)
            /\ pc' = "loop"
    /\ failiures' = {}
    /\ i' = 1
    /\ UNCHANGED <<key_of_name, val, attempt, raising, run, file_t2e, file_e2t,
                   file_fail, calls, waits, lastOutcome, callsRun, resolvedBefore,
                   finished, nomatch, failWrites, snap, otherVars>>

(* A skip test that looks at key -> code only *)
AlreadyResolvedOneWay(key, sdts, rev) == key \in DOMAIN sdts

(* Line 521: the key has a code and the code has a name *)
AlreadyResolved(key, sdts, rev) ==
    /\ key \in DOMAIN sdts
    /\ sdts[key] \in DOMAIN rev

(* Lines 520-522: the head of the for loop and the cache skip *)
LoopHead ==
    /\ pc = "loop"
    /\ IF i > Len(sdt_list)
       THEN /\ pc' = "flush"
            /\ UNCHANGED <<i, attempt, calls, waits, snap>>
       ELSE IF AlreadyResolved(CurKey, processed_sdts, reverse_dict)
            THEN /\ i' = i + 1
                 /\ UNCHANGED <<pc, attempt, calls, waits, snap>>
            ELSE /\ pc' = "call"
                 /\ attempt' = 1
                 /\ calls' = 0
                 /\ waits' = <<>>
                 /\ snap' = Snapshot
                 /\ UNCHANGED i
    /\ UNCHANGED <<key_of_name, sdt_list, processed_sdts, reverse_dict, failiures,
                   val, raising, run, file_t2e, file_e2t, file_fail, lastOutcome,
                   callsRun, resolvedBefore, finished, nomatch, failWrites, otherVars>>

(* Lines 525, 529, 533, 536: one call of the pipeline.  The first three    *)
(* are inside a try with an except ValueError; the fourth is not.          *)
CallPipeline(o) ==
    /\ pc = "call"
    /\ calls' = calls + 1
    /\ callsRun' = [callsRun EXCEPT ![CurKey] = @ + 1]
    /\ lastOutcome' = o
    /\ IF o.kind = "ValueError"
       THEN IF attempt < MaxAttempts
            THEN /\ pc' = "sleep"
                 /\ UNCHANGED <<val, raising, nomatch>>
            ELSE /\ pc' = "finally"
                 /\ raising' = TRUE
                 /\ UNCHANGED <<val, nomatch>>
       ELSE /\ val' = IF o.kind = "None" THEN None
                      ELSE SettlementDataTuple(CurKey, o.code)
            /\ nomatch' = IF o.kind = "None" THEN nomatch \cup {CurKey} ELSE nomatch
            /\ pc' = "finally"
            /\ raising' = FALSE
    /\ UNCHANGED <<key_of_name, sdt_list, processed_sdts, reverse_dict, failiures,
                   i, attempt, run, file_t2e, file_e2t, file_fail, waits,
                   resolvedBefore, finished, failWrites, snap, otherVars>>

(* Lines 527, 531, 535: time.sleep in the except block, then the next try *)
Sleep ==
    /\ pc = "sleep"
    /\ waits' = Append(waits, Delay(attempt))
    /\ attempt' = attempt + 1
    /\ pc' = "call"
    /\ UNCHANGED <<key_of_name, sdt_list, processed_sdts, reverse_dict, failiures,
                   val, i, raising, run, file_t2e, file_e2t, file_fail, calls,
                   lastOutcome, callsRun, resolvedBefore, finished, nomatch,
                   failWrites, snap, otherVars>>

(* The end of the finally block: the pending ValueError propagates, or the *)
(* loop goes on to the next element.                                       *)
AfterFinally(p, ii) ==
    IF raising THEN p = "aborted" /\ ii = i
               ELSE p = "loop" /\ ii = i + 1

(* A failure set that forgets the key *)
FailiuresKeep(fs, key) == fs

(* Line 546: failiures.add(sdt[0]) *)
FailiuresAdd(fs, key) == fs \cup {key}

(* Lines 537-541 and 545-546: the finally block reads `val`, which is the  *)
(* value bound by the latest assignment in this call of the function.      *)
FinallyBegin ==
    /\ pc = "finally"
    /\ CASE val.tag = "unbound" ->
              \* UnboundLocalError replaces the pending exception
              /\ pc' = "aborted"
              /\ UNCHANGED <<processed_sdts, failiures, file_t2e, i>>
         [] val.tag = "None" ->
              /\ failiures' = FailiuresAdd(failiures, CurKey)
              /\ AfterFinally(pc', i')
              /\ UNCHANGED <<processed_sdts, file_t2e>>
         [] OTHER ->
              /\ processed_sdts' = DictSet(processed_sdts, val.key, val.data)
              /\ file_t2e' = PickleOpen
              /\ pc' = "dump_t2e"
              /\ UNCHANGED <<failiures, i>>
    /\ UNCHANGED <<key_of_name, sdt_list, reverse_dict, val, attempt, raising, run,
                   file_e2t, file_fail, calls, waits, lastOutcome, callsRun,
                   resolvedBefore, finished, nomatch, failWrites, snap, otherVars>>

(* Line 541, second half of pickle_data: pickle.dump(processed_sdts) *)
DumpT2E ==
    /\ pc = "dump_t2e"
    /\ file_t2e' = PickleDump(processed_sdts)
    /\ pc' = "store_e2t"
    /\ UNCHANGED <<key_of_name, sdt_list, processed_sdts, reverse_dict, failiures,
                   val, i, attempt, raising, run, file_e2t, file_fail, calls, waits,
                   lastOutcome, callsRun, resolvedBefore, finished, nomatch,
                   failWrites, snap, otherVars>>

(* Lines 543-544: reverse_dict[val.data] = sdt[1], then open the blob *)
StoreE2T ==
    /\ pc = "store_e2t"
    /\ reverse_dict' = DictSet(reverse_dict, val.data, CurName)
    /\ file_e2t' = PickleOpen
    /\ pc' = "dump_e2t"
    /\ UNCHANGED <<key_of_name, sdt_list, processed_sdts, failiures, val, i, attempt,
                   raising, run, file_t2e, file_fail, calls, waits, lastOutcome,
                   callsRun, resolvedBefore, finished, nomatch, failWrites, snap,
                   otherVars>>

(* Line 544, second half of pickle_data, and the end of the finally block *)
DumpE2T ==
    /\ pc = "dump_e2t"
    /\ file_e2t' = PickleDump(reverse_dict)
    /\ AfterFinally(pc', i')
    /\ finished' = IF raising THEN finished ELSE finished \cup {CurKey}
    /\ UNCHANGED <<key_of_name, sdt_list, processed_sdts, reverse_dict, failiures,
                   val, attempt, raising, run, file_t2e, file_fail, calls, waits,
                   lastOutcome, callsRun, resolvedBefore, nomatch, failWrites, snap,
                   otherVars>>

(* Line 548: pickle_data(failiures, 'failiures'), open then dump *)
FlushOpen ==
    /\ pc = "flush"
    /\ file_fail' = PickleOpen
    /\ pc' = "dump_fail"
    /\ UNCHANGED <<key_of_name, sdt_list, processed_sdts, reverse_dict, failiures,
                   val, i, attempt, raising, run, file_t2e, file_e2t, calls, waits,
                   lastOutcome, callsRun, resolvedBefore, finished, nomatch,
                   failWrites, snap, otherVars>>

FlushDump ==
    /\ pc = "dump_fail"
    /\ file_fail' = PickleDump(failiures)
    /\ failWrites' = failWrites + 1
    /\ pc' = "done"
    /\ UNCHANGED <<key_of_name, sdt_list, processed_sdts, reverse_dict, failiures,
                   val, i, attempt, raising, run, file_t2e, file_e2t, calls, waits,
                   lastOutcome, callsRun, resolvedBefore, finished, nomatch, snap,
                   otherVars>>

Running == pc \in {"loop", "call", "sleep", "finally", "dump_t2e", "store_e2t",
                   "dump_e2t", "flush", "dump_fail"}
Stopped == pc \in {"done", "aborted", "load_error", "crashed"}

(* The process is killed between two steps: memory is lost, blobs stay *)
Crash ==
    /\ Running
    /\ pc' = "crashed"
    /\ Forget
    /\ ForgetObserved
    /\ UNCHANGED <<key_of_name, run, file_t2e, file_e2t, file_fail,
                   resolvedBefore, finished, otherVars>>

(* The program is started again over the same input *)
Restart ==
    /\ Stopped
    /\ run < MaxRuns
    /\ run' = run + 1
    /\ pc' = "start"
    /\ Forget
    /\ ForgetObserved
    /\ resolvedBefore' = resolvedBefore \cup finished
    /\ finished' = {}
    /\ UNCHANGED <<key_of_name, file_t2e, file_e2t, file_fail, otherVars>>

NextResolver ==
    \/ Load
    \/ LoopHead
    \/ \E o \in Outcomes : CallPipeline(o)
    \/ Sleep
    \/ FinallyBegin
    \/ DumpT2E
    \/ StoreE2T
    \/ DumpE2T
    \/ FlushOpen
    \/ FlushDump
    \/ Crash
    \/ Restart

Spec == InitResolver /\ [][NextResolver]_vars

----------------------------------------------------------------------------
(* Claims about disambiguate_data *)

InFinally == pc \in {"finally", "dump_t2e", "store_e2t", "dump_e2t"}

(* C1: resolving one key makes at most 4 pipeline calls; the waits before  *)
(* the 2nd, 3rd and 4th call are exactly 10, 15 and 20, with none before   *)
(* the 1st call or after a success; a success on call n is the value kept  *)
(* (after 3 failures: 4 calls, waits summing to 45); 4 failures propagate  *)
(* after exactly 4 calls and the three waits, and no further call is made. *)
C1_RetryLadder ==
    /\ calls <= 4
    /\ pc = "call" => calls = attempt - 1 /\ waits = SubSeq(<<10, 15, 20>>, 1, calls)
    /\ pc = "sleep" => /\ calls = attempt
                       /\ lastOutcome.kind = "ValueError"
                       /\ waits = SubSeq(<<10, 15, 20>>, 1, calls - 1)
    /\ InFinally /\ ~raising =>
          /\ lastOutcome.kind \in {"None", "code"}
          /\ waits = SubSeq(<<10, 15, 20>>, 1, calls - 1)
          /\ lastOutcome.kind = "code" => val = SettlementDataTuple(CurKey, lastOutcome.code)
          /\ lastOutcome.kind = "None" => val = None
          /\ calls = 4 => waits[1] + waits[2] + waits[3] = 45
    /\ raising => /\ pc \in {"finally", "dump_t2e", "store_e2t", "dump_e2t", "aborted"}
                  /\ calls = 4
                  /\ lastOutcome.kind = "ValueError"
                  /\ waits = <<10, 15, 20>>

(* Three failures, then a success on the fourth call *)
C1_Witness ==
    /\ pc = "finally"
    /\ ~raising
    /\ calls = 4
    /\ lastOutcome.kind = "code"
    /\ waits = <<10, 15, 20>>

(* C2: a run that loaded the stores left by earlier runs makes no pipeline *)
(* call for a key whose resolution an earlier run finished.                *)
C2_Resumable == \A k \in resolvedBefore : callsRun[k] = 0

(* A second run that skipped a resolved key and still queried another one *)
C2_Witness ==
    /\ run = 2
    /\ pc = "done"
    /\ resolvedBefore # {}
    /\ \E k \in Keys : callsRun[k] > 0

(* C3, as claimed: at every point of the loop each key whose resolution    *)
(* finished in this run is in the persisted key->code store, with its code *)
(* in the persisted code->key store.                                       *)
C3_FinishedKeysPersisted ==
    Running => \A k \in finished :
                  /\ file_t2e.st = "ok"
                  /\ k \in DOMAIN file_t2e.data
                  /\ file_e2t.st = "ok"
                  /\ file_t2e.data[k] \in DOMAIN file_e2t.data

(* C4, as claimed: when the fourth attempt for a key fails and the run     *)
(* aborts, both mappings, in memory and in storage, are what they were     *)
(* when the processing of that key began.                                  *)
C4_AbortLeavesMappings ==
    (pc = "aborted" /\ calls = 4 /\ lastOutcome.kind = "ValueError")
        => Snapshot = snap

(* C15: at the head of the loop a key goes to the resolver exactly when   *)
(* it is not the case that key -> code has the key and code -> key has    *)
(* that code; a key with both entries is passed over with no call and no  *)
(* write, and no call is ever made for such a key.                         *)
C15_SkipRule ==
    /\ [](pc \in {"call", "sleep"} =>
            ~(/\ CurKey \in DOMAIN processed_sdts
              /\ processed_sdts[CurKey] \in DOMAIN reverse_dict))
    /\ [][(pc = "loop" /\ i <= Len(sdt_list) /\ pc' # "crashed") =>
            IF /\ CurKey \in DOMAIN processed_sdts
               /\ processed_sdts[CurKey] \in DOMAIN reverse_dict
            THEN /\ pc' = "loop"
                 /\ i' = i + 1
                 /\ UNCHANGED <<processed_sdts, reverse_dict, callsRun,
                                file_t2e, file_e2t, file_fail>>
            ELSE /\ pc' = "call"
                 /\ i' = i]_vars

(* A key that has a code whose name is missing is being resolved again *)
C15_Witness ==
    /\ pc = "call"
    /\ CurKey \in DOMAIN processed_sdts
    /\ processed_sdts[CurKey] \notin DOMAIN reverse_dict

(* C16: after a call that returned no match the key joins the failure set, *)
(* the mappings and their blobs stay as they are, there is no wait and no  *)
(* further call for the key, and the loop goes on with the next key; the   *)
(* failure set is written once per run, after the last key, and the blob   *)
(* then holds exactly the keys without a match in this run.                *)
C16_NoMatchIsSoft ==
    /\ [](/\ failWrites <= 1
          /\ pc = "done" => failWrites = 1
          /\ failWrites = 1 => (pc = "done" /\ file_fail = Pickled(nomatch)))
    /\ [][(pc = "finally" /\ lastOutcome.kind = "None" /\ pc' # "crashed") =>
            /\ failiures' = failiures \cup {CurKey}
            /\ CurKey \in nomatch
            /\ pc' = "loop"
            /\ i' = i + 1
            /\ UNCHANGED <<processed_sdts, reverse_dict, file_t2e, file_e2t,
                           file_fail, calls, waits, callsRun>>]_vars

(* A second run has ended with a key without a match in its failure blob *)
C16_Witness ==
    /\ pc = "done"
    /\ run = 2
    /\ nomatch # {}
    /\ file_fail = Pickled(nomatch)

----------------------------------------------------------------------------
(* parssed_lines_to_full_info_list: the record assembler *)

(* Highest line number of the enumerated documents *)
MaxPos == 5
Positions == 1..MaxPos

(* parse_lines fills both dicts in line order, so their keys ascend *)
RECURSIVE SortedSeq(_)
SortedSeq(S) ==
    IF S = {} THEN <<>>
    ELSE LET m == CHOOSE x \in S : \A y \in S : x <= y
         IN  <<m>> \o SortedSeq(S \ {m})

(* A line is a header or a data row, never both (parse_lines, `continue`) *)
InitAssembler ==
    /\ \/ \E H \in SUBSET Positions : \E R \in SUBSET (Positions \ H) :
            /\ reg_keys = SortedSeq(H)
            /\ settlement_keys = SortedSeq(R)
       \/ /\ reg_keys = <<2, 10, 20>>
          /\ settlement_keys = <<1, 5, 15, 25>>
    /\ pair = 1
    /\ sk_index = 0
    /\ full_name_settlement_infos = <<>>
    /\ asm_pc = "while"
    /\ IdleResolver
    /\ IdleCall

(* zip(reg_keys[:-1], reg_keys[1:]) has Len(reg_keys) - 1 elements *)
NumPairs == IF Len(reg_keys) = 0 THEN 0 ELSE Len(reg_keys) - 1
current_mun == reg_keys[pair]
next_mun == reg_keys[pair + 1]

(* Line 454: the condition of the while loop subscripts settlement_keys *)
SubscriptInRange == sk_index < Len(settlement_keys)
WhileCondition ==
    /\ current_mun < settlement_keys[sk_index + 1]
    /\ settlement_keys[sk_index + 1] < next_mun

(* Lines 454-464: the row lies in the pair: attach it and go on *)
AsmAttach ==
    /\ asm_pc = "while"
    /\ pair <= NumPairs
    /\ SubscriptInRange
    /\ WhileCondition
    /\ full_name_settlement_infos' =
           Append(full_name_settlement_infos,
                  [header |-> current_mun, row |-> settlement_keys[sk_index + 1]])
    /\ sk_index' = sk_index + 1
    /\ UNCHANGED <<reg_keys, settlement_keys, pair, asm_pc, resolverVars, callVars, linesVars>>

(* Lines 453-454: the condition is false: the for loop takes the next pair *)
AsmNextPair ==
    /\ asm_pc = "while"
    /\ pair <= NumPairs
    /\ SubscriptInRange
    /\ ~WhileCondition
    /\ pair' = pair + 1
    /\ UNCHANGED <<reg_keys, settlement_keys, sk_index, full_name_settlement_infos,
                   asm_pc, resolverVars, callVars, linesVars>>

(* Line 454: settlement_keys[sk_index] with sk_index past the end *)
AsmIndexError ==
    /\ asm_pc = "while"
    /\ pair <= NumPairs
    /\ ~SubscriptInRange
    /\ asm_pc' = "IndexError"
    /\ UNCHANGED <<reg_keys, settlement_keys, pair, sk_index,
                   full_name_settlement_infos, resolverVars, callVars, linesVars>>

(* Line 466: the pairs are exhausted *)
AsmReturn ==
    /\ asm_pc = "while"
    /\ pair > NumPairs
    /\ asm_pc' = "returned"
    /\ UNCHANGED <<reg_keys, settlement_keys, pair, sk_index,
                   full_name_settlement_infos, resolverVars, callVars, linesVars>>

NextAssembler == AsmAttach \/ AsmNextPair \/ AsmIndexError \/ AsmReturn

SpecAssembler == InitAssembler /\ [][NextAssembler]_vars

Range(q) == {q[n] : n \in DOMAIN q}

(* The rows lying strictly between two consecutive headers, with the first *)
(* header of the pair                                                      *)
EnclosedRows ==
    {[header |-> reg_keys[p], row |-> r] :
        p \in 1..NumPairs, r \in Range(settlement_keys)}
    \cap {e \in [header : Range(reg_keys), row : Range(settlement_keys)] :
            \E p \in 1..NumPairs :
                /\ e.header = reg_keys[p]
                /\ reg_keys[p] < e.row
                /\ e.row < reg_keys[p + 1]}

(* C5, as claimed: the returned list holds exactly the rows lying strictly *)
(* between two consecutive headers, each once and attached to the first    *)
(* header of its pair; rows before the first or after the last header are  *)
(* dropped.                                                                *)
C5_ExactlyEnclosedRows ==
    asm_pc = "returned" =>
        /\ Range(full_name_settlement_infos) = EnclosedRows
        /\ Len(full_name_settlement_infos) = Cardinality(EnclosedRows)

(* C19, as claimed: the assembler ends by returning its list for every   *)
(* parsed document, also with two or more headers and no rows, and with   *)
(* no row after the last header; it never stops with an error.             *)
C19_AssemblerReturns == asm_pc # "IndexError"

----------------------------------------------------------------------------
(* Text: a str is a sequence of Unicode code points *)

Ch_Space == 32
Ch_Bang == 33
Ch_Hyphen == 45
Ch_Dot == 46
Ch_Pipe == 124
Ch_Tab == 9
(* Cyrillic capital letters A, O, hard sign and soft sign *)
Cyr_A == 1040
Cyr_O == 1054
Cyr_Hard == 1066
Cyr_Soft == 1068

(* str.find(c, start) for a one-character c: 0-based index, or -1 *)
RECURSIVE PyFind(_, _, _)
PyFind(str, c, start) ==
    IF start >= Len(str) THEN -1
    ELSE IF str[start + 1] = c THEN start
    ELSE PyFind(str, c, start + 1)

(* str.replace(old, new) for one-character old and new: every occurrence *)
PyReplace(str, old, new) ==
    [n \in 1..Len(str) |-> IF str[n] = old THEN new ELSE str[n]]

(* The correction table of fix_names, lines 196-245, as (key, value) pairs *)
names ==
  {
    \* line 197: BOBOVDOL -> BOBOV DOL
    <<<<1041, 1054, 1041, 1054, 1042, 1044, 1054, 1051>>,
      <<1041, 1054, 1041, 1054, 1042, 32, 1044, 1054, 1051>>>>,
    \* line 198: V(hard)LCHIDOL -> V(hard)LCHI DOL
    <<<<1042, 1066, 1051, 1063, 1048, 1044, 1054, 1051>>,
      <<1042, 1066, 1051, 1063, 1048, 32, 1044, 1054, 1051>>>>,
    \* line 199: KAPITAN PETKO VOJVO -> KAPITAN PETKO VOJVODA
    <<<<1050, 1040, 1055, 1048, 1058, 1040, 1053, 32, 1055, 1045, 1058, 1050, 1054, 32, 1042, 1054, 1049, 1042, 1054>>,
      <<1050, 1040, 1055, 1048, 1058, 1040, 1053, 32, 1055, 1045, 1058, 1050, 1054, 32, 1042, 1054, 1049, 1042, 1054, 1044, 1040>>>>,
    \* line 200: DOBRICHKA -> DOBRICH-SELSKA
    <<<<1044, 1054, 1041, 1056, 1048, 1063, 1050, 1040>>,
      <<1044, 1054, 1041, 1056, 1048, 1063, 45, 1057, 1045, 1051, 1057, 1050, 1040>>>>,
    \* line 201: DOBRICH SELSKA -> DOBRICH-SELSKA
    <<<<1044, 1054, 1041, 1056, 1048, 1063, 32, 1057, 1045, 1051, 1057, 1050, 1040>>,
      <<1044, 1054, 1041, 1056, 1048, 1063, 45, 1057, 1045, 1051, 1057, 1050, 1040>>>>,
    \* line 202: BERAINCI -> BERAJNCI
    <<<<1041, 1045, 1056, 1040, 1048, 1053, 1062, 1048>>,
      <<1041, 1045, 1056, 1040, 1049, 1053, 1062, 1048>>>>,
    \* line 203: FELTFEBEL DENKOVO -> FELDFEBEL DENKOVO
    <<<<1060, 1045, 1051, 1058, 1060, 1045, 1041, 1045, 1051, 32, 1044, 1045, 1053, 1050, 1054, 1042, 1054>>,
      <<1060, 1045, 1051, 1044, 1060, 1045, 1041, 1045, 1051, 32, 1044, 1045, 1053, 1050, 1054, 1042, 1054>>>>,
    \* line 204: URUCHOVCI -> URUCHEVCI
    <<<<1059, 1056, 1059, 1063, 1054, 1042, 1062, 1048>>,
      <<1059, 1056, 1059, 1063, 1045, 1042, 1062, 1048>>>>,
    \* line 205: POLIKRAJSHTE -> POLIKRAISHTE
    <<<<1055, 1054, 1051, 1048, 1050, 1056, 1040, 1049, 1065, 1045>>,
      <<1055, 1054, 1051, 1048, 1050, 1056, 1040, 1048, 1065, 1045>>>>,
    \* line 206: KAMESHICA -> KAMESHTICA
    <<<<1050, 1040, 1052, 1045, 1064, 1048, 1062, 1040>>,
      <<1050, 1040, 1052, 1045, 1065, 1048, 1062, 1040>>>>,
    \* line 207: BOGDANOVDOL -> BOGDANOV DOL
    <<<<1041, 1054, 1043, 1044, 1040, 1053, 1054, 1042, 1044, 1054, 1051>>,
      <<1041, 1054, 1043, 1044, 1040, 1053, 1054, 1042, 32, 1044, 1054, 1051>>>>,
    \* line 208: SIN(soft)O B(soft)RDO -> SIN(soft)O B(hard)RDO
    <<<<1057, 1048, 1053, 1068, 1054, 32, 1041, 1068, 1056, 1044, 1054>>,
      <<1057, 1048, 1053, 1068, 1054, 32, 1041, 1066, 1056, 1044, 1054>>>>,
    \* line 209: ZELEN DOL -> ZELENDOL
    <<<<1047, 1045, 1051, 1045, 1053, 32, 1044, 1054, 1051>>,
      <<1047, 1045, 1051, 1045, 1053, 1044, 1054, 1051>>>>,
    \* line 210: MARIKOSTENOVO -> MARIKOSTINOVO
    <<<<1052, 1040, 1056, 1048, 1050, 1054, 1057, 1058, 1045, 1053, 1054, 1042, 1054>>,
      <<1052, 1040, 1056, 1048, 1050, 1054, 1057, 1058, 1048, 1053, 1054, 1042, 1054>>>>,
    \* line 211: SANSTEFANO -> SAN-STEFANO
    <<<<1057, 1040, 1053, 1057, 1058, 1045, 1060, 1040, 1053, 1054>>,
      <<1057, 1040, 1053, 45, 1057, 1058, 1045, 1060, 1040, 1053, 1054>>>>,
    \* line 212: SAN STEFANO -> SAN-STEFANO
    <<<<1057, 1040, 1053, 32, 1057, 1058, 1045, 1060, 1040, 1053, 1054>>,
      <<1057, 1040, 1053, 45, 1057, 1058, 1045, 1060, 1040, 1053, 1054>>>>,
    \* line 213: PETROVDOL -> PETROV DOL
    <<<<1055, 1045, 1058, 1056, 1054, 1042, 1044, 1054, 1051>>,
      <<1055, 1045, 1058, 1056, 1054, 1042, 32, 1044, 1054, 1051>>>>,
    \* line 214: CHAPAEVO -> CARSKI IZVOR
    <<<<1063, 1040, 1055, 1040, 1045, 1042, 1054>>,
      <<1062, 1040, 1056, 1057, 1050, 1048, 32, 1048, 1047, 1042, 1054, 1056>>>>,
    \* line 215: ELOVDOL -> ELOV DOL
    <<<<1045, 1051, 1054, 1042, 1044, 1054, 1051>>,
      <<1045, 1051, 1054, 1042, 32, 1044, 1054, 1051>>>>,
    \* line 216: V. T(hard)RNOVO -> VELIKO T(hard)RNOVO
    <<<<1042, 46, 32, 1058, 1066, 1056, 1053, 1054, 1042, 1054>>,
      <<1042, 1045, 1051, 1048, 1050, 1054, 32, 1058, 1066, 1056, 1053, 1054, 1042, 1054>>>>,
    \* line 217: V.T(hard)RNOVO -> VELIKO T(hard)RNOVO
    <<<<1042, 46, 1058, 1066, 1056, 1053, 1054, 1042, 1054>>,
      <<1042, 1045, 1051, 1048, 1050, 1054, 32, 1058, 1066, 1056, 1053, 1054, 1042, 1054>>>>,
    \* line 218: GENERAL-TOSHOVO -> GENERAL TOSHEVO
    <<<<1043, 1045, 1053, 1045, 1056, 1040, 1051, 45, 1058, 1054, 1064, 1054, 1042, 1054>>,
      <<1043, 1045, 1053, 1045, 1056, 1040, 1051, 32, 1058, 1054, 1064, 1045, 1042, 1054>>>>,
    \* line 219: GENERAL TOSHOVO -> GENERAL TOSHEVO
    <<<<1043, 1045, 1053, 1045, 1056, 1040, 1051, 32, 1058, 1054, 1064, 1054, 1042, 1054>>,
      <<1043, 1045, 1053, 1045, 1056, 1040, 1051, 32, 1058, 1054, 1064, 1045, 1042, 1054>>>>,
    \* line 220: GENERAL-TOSHEVO -> GENERAL TOSHEVO
    <<<<1043, 1045, 1053, 1045, 1056, 1040, 1051, 45, 1058, 1054, 1064, 1045, 1042, 1054>>,
      <<1043, 1045, 1053, 1045, 1056, 1040, 1051, 32, 1058, 1054, 1064, 1045, 1042, 1054>>>>,
    \* line 221: BEDZHDENE -> BEDZHENE
    <<<<1041, 1045, 1044, 1046, 1044, 1045, 1053, 1045>>,
      <<1041, 1045, 1044, 1046, 1045, 1053, 1045>>>>,
    \* line 222: TAJMISHE -> TAJMISHTE
    <<<<1058, 1040, 1049, 1052, 1048, 1064, 1045>>,
      <<1058, 1040, 1049, 1052, 1048, 1065, 1045>>>>,
    \* line 229: STOYAN ZAIMOVO -> STOYAN-ZAIMOVO
    <<<<1057, 1058, 1054, 1071, 1053, 32, 1047, 1040, 1048, 1052, 1054, 1042, 1054>>,
      <<1057, 1058, 1054, 1071, 1053, 45, 1047, 1040, 1048, 1052, 1054, 1042, 1054>>>>,
    \* line 224: DASKAL ATANASOVO -> DASKAL-ATANASOVO
    <<<<1044, 1040, 1057, 1050, 1040, 1051, 32, 1040, 1058, 1040, 1053, 1040, 1057, 1054, 1042, 1054>>,
      <<1044, 1040, 1057, 1050, 1040, 1051, 45, 1040, 1058, 1040, 1053, 1040, 1057, 1054, 1042, 1054>>>>,
    \* line 225: SLAVEINO -> SLAVEJNO
    <<<<1057, 1051, 1040, 1042, 1045, 1048, 1053, 1054>>,
      <<1057, 1051, 1040, 1042, 1045, 1049, 1053, 1054>>>>,
    \* line 226: KRALEVDOL -> KRALEV DOL
    <<<<1050, 1056, 1040, 1051, 1045, 1042, 1044, 1054, 1051>>,
      <<1050, 1056, 1040, 1051, 1045, 1042, 32, 1044, 1054, 1051>>>>,
    \* line 227: FELDFEBEL DYANKOVO -> FELDFEBEL DENKOVO
    <<<<1060, 1045, 1051, 1044, 1060, 1045, 1041, 1045, 1051, 32, 1044, 1071, 1053, 1050, 1054, 1042, 1054>>,
      <<1060, 1045, 1051, 1044, 1060, 1045, 1041, 1045, 1051, 32, 1044, 1045, 1053, 1050, 1054, 1042, 1054>>>>,
    \* line 228: DL(hard)HCHEVO SABLYAR -> DL(hard)HCHEVO-SABLYAR
    <<<<1044, 1051, 1066, 1061, 1063, 1045, 1042, 1054, 32, 1057, 1040, 1041, 1051, 1071, 1056>>,
      <<1044, 1051, 1066, 1061, 1063, 1045, 1042, 1054, 45, 1057, 1040, 1041, 1051, 1071, 1056>>>>,
    \* line 230: GOLEM V(hard)RBOVNIK -> GOLYAM V(hard)RBOVNIK
    <<<<1043, 1054, 1051, 1045, 1052, 32, 1042, 1066, 1056, 1041, 1054, 1042, 1053, 1048, 1050>>,
      <<1043, 1054, 1051, 1071, 1052, 32, 1042, 1066, 1056, 1041, 1054, 1042, 1053, 1048, 1050>>>>,
    \* line 231: POLKOVNIK ZHELEZOVO -> POLKOVNIK ZHELYAZOVO
    <<<<1055, 1054, 1051, 1050, 1054, 1042, 1053, 1048, 1050, 32, 1046, 1045, 1051, 1045, 1047, 1054, 1042, 1054>>,
      <<1055, 1054, 1051, 1050, 1054, 1042, 1053, 1048, 1050, 32, 1046, 1045, 1051, 1071, 1047, 1054, 1042, 1054>>>>,
    \* line 232: DOBRICH GRAD -> DOBRICH
    <<<<1044, 1054, 1041, 1056, 1048, 1063, 32, 1043, 1056, 1040, 1044>>,
      <<1044, 1054, 1041, 1056, 1048, 1063>>>>,
    \* line 233: CAR PETROVO -> CAR-PETROVO
    <<<<1062, 1040, 1056, 32, 1055, 1045, 1058, 1056, 1054, 1042, 1054>>,
      <<1062, 1040, 1056, 45, 1055, 1045, 1058, 1056, 1054, 1042, 1054>>>>,
    \* line 234: V(hard)LCHANDOL -> V(hard)LCHAN DOL
    <<<<1042, 1066, 1051, 1063, 1040, 1053, 1044, 1054, 1051>>,
      <<1042, 1066, 1051, 1063, 1040, 1053, 32, 1044, 1054, 1051>>>>,
    \* line 235: PANAGYURSKI KOLONI -> PANAGYURSKI KOLONII
    <<<<1055, 1040, 1053, 1040, 1043, 1070, 1056, 1057, 1050, 1048, 32, 1050, 1054, 1051, 1054, 1053, 1048>>,
      <<1055, 1040, 1053, 1040, 1043, 1070, 1056, 1057, 1050, 1048, 32, 1050, 1054, 1051, 1054, 1053, 1048, 1048>>>>,
    \* line 236: GORSKI GOREN TR(hard)MBE -> GORSKI GOREN TR(hard)MBESH
    <<<<1043, 1054, 1056, 1057, 1050, 1048, 32, 1043, 1054, 1056, 1045, 1053, 32, 1058, 1056, 1066, 1052, 1041, 1045>>,
      <<1043, 1054, 1056, 1057, 1050, 1048, 32, 1043, 1054, 1056, 1045, 1053, 32, 1058, 1056, 1066, 1052, 1041, 1045, 1064>>>>,
    \* line 237: GORSKI DOLEN TR(hard)MBE -> GORSKI DOLEN TR(hard)MBESH
    <<<<1043, 1054, 1056, 1057, 1050, 1048, 32, 1044, 1054, 1051, 1045, 1053, 32, 1058, 1056, 1066, 1052, 1041, 1045>>,
      <<1043, 1054, 1056, 1057, 1050, 1048, 32, 1044, 1054, 1051, 1045, 1053, 32, 1058, 1056, 1066, 1052, 1041, 1045, 1064>>>>,
    \* line 238: GENERAL-KANTARDZHIEV -> GENERAL KANTARDZHIEVO
    <<<<1043, 1045, 1053, 1045, 1056, 1040, 1051, 45, 1050, 1040, 1053, 1058, 1040, 1056, 1044, 1046, 1048, 1045, 1042>>,
      <<1043, 1045, 1053, 1045, 1056, 1040, 1051, 32, 1050, 1040, 1053, 1058, 1040, 1056, 1044, 1046, 1048, 1045, 1042, 1054>>>>,
    \* line 239: GENERAL KANTARDZHIEV -> GENERAL KANTARDZHIEVO
    <<<<1043, 1045, 1053, 1045, 1056, 1040, 1051, 32, 1050, 1040, 1053, 1058, 1040, 1056, 1044, 1046, 1048, 1045, 1042>>,
      <<1043, 1045, 1053, 1045, 1056, 1040, 1051, 32, 1050, 1040, 1053, 1058, 1040, 1056, 1044, 1046, 1048, 1045, 1042, 1054>>>>,
    \* line 240: ALEKSAND(hard)R STAMBOLI -> ALEKSAND(soft)R STAMBOLIJSKI
    <<<<1040, 1051, 1045, 1050, 1057, 1040, 1053, 1044, 1066, 1056, 32, 1057, 1058, 1040, 1052, 1041, 1054, 1051, 1048>>,
      <<1040, 1051, 1045, 1050, 1057, 1040, 1053, 1044, 1068, 1056, 32, 1057, 1058, 1040, 1052, 1041, 1054, 1051, 1048, 1049, 1057, 1050, 1048>>>>,
    \* line 241: POLKOVNIK-LAMBRINOV -> POLKOVNIK LAMBRINOVO
    <<<<1055, 1054, 1051, 1050, 1054, 1042, 1053, 1048, 1050, 45, 1051, 1040, 1052, 1041, 1056, 1048, 1053, 1054, 1042>>,
      <<1055, 1054, 1051, 1050, 1054, 1042, 1053, 1048, 1050, 32, 1051, 1040, 1052, 1041, 1056, 1048, 1053, 1054, 1042, 1054>>>>,
    \* line 242: POLKOVNIK LAMBRINOV -> POLKOVNIK LAMBRINOVO
    <<<<1055, 1054, 1051, 1050, 1054, 1042, 1053, 1048, 1050, 32, 1051, 1040, 1052, 1041, 1056, 1048, 1053, 1054, 1042>>,
      <<1055, 1054, 1051, 1050, 1054, 1042, 1053, 1048, 1050, 32, 1051, 1040, 1052, 1041, 1056, 1048, 1053, 1054, 1042, 1054>>>>,
    \* line 243: POLKOVNIK-SERAFIMOV -> POLKOVNIK SERAFIMOVO
    <<<<1055, 1054, 1051, 1050, 1054, 1042, 1053, 1048, 1050, 45, 1057, 1045, 1056, 1040, 1060, 1048, 1052, 1054, 1042>>,
      <<1055, 1054, 1051, 1050, 1054, 1042, 1053, 1048, 1050, 32, 1057, 1045, 1056, 1040, 1060, 1048, 1052, 1054, 1042, 1054>>>>,
    \* line 244: POLKOVNIK SERAFIMOV -> POLKOVNIK SERAFIMOVO
    <<<<1055, 1054, 1051, 1050, 1054, 1042, 1053, 1048, 1050, 32, 1057, 1045, 1056, 1040, 1060, 1048, 1052, 1054, 1042>>,
      <<1055, 1054, 1051, 1050, 1054, 1042, 1053, 1048, 1050, 32, 1057, 1045, 1056, 1040, 1060, 1048, 1052, 1054, 1042, 1054>>>>
  }

(* names.get(x, x) *)
NamesGet(x) ==
    IF \E e \in names : e[1] = x
    THEN (CHOOSE e \in names : e[1] = x)[2]
    ELSE x

(* fix_names, lines 184-252 *)
fix_names(name) ==
    LET prob_pos == PyFind(name, Cyr_Soft, 0)
        o_pos == PyFind(name, Cyr_O, prob_pos)
        new_name == IF prob_pos # -1 /\ o_pos # prob_pos + 1
                    THEN PyReplace(name, Cyr_Soft, Cyr_Hard)
                    ELSE name
        spaced == IF PyFind(new_name, Ch_Hyphen, 0) # -1
                  THEN PyReplace(new_name, Ch_Hyphen, Ch_Space)
                  ELSE new_name
    IN  NamesGet(spaced)

----------------------------------------------------------------------------
(* A function under test: `input` holds the call, `output` its result *)

Pending == [status |-> "pending"]
Returned(v) == [status |-> "returned", value |-> v]

(* Longest enumerated name *)
MaxNameLen == 3
NameAlphabet == {Cyr_Soft, Cyr_Hard, Cyr_O, Cyr_A, Ch_Hyphen, Ch_Space}

StringsUpTo(A, n) == UNION {[1..m -> A] : m \in 0..n}

NameInputs ==
    StringsUpTo(NameAlphabet, MaxNameLen)
    \cup {e[1] : e \in names} \cup {e[2] : e \in names}

InitFixNames ==
    /\ input \in {[fn |-> "fix_names", arg |-> x] : x \in NameInputs}
    /\ output = Pending
    /\ file_combined = NoFile
    /\ IdleLines
    /\ IdleResolver
    /\ IdleAssembler

CallFixNames ==
    /\ input.fn = "fix_names"
    /\ output = Pending
    /\ output' = Returned(fix_names(input.arg))
    /\ UNCHANGED <<input, file_combined, resolverVars, asmVars, linesVars>>

SpecFixNames == InitFixNames /\ [][CallFixNames]_vars

(* C8, as claimed: fix_names(fix_names(x)) = fix_names(x) for every name x *)
C8_FixNamesIdempotent ==
    output.status = "returned" => fix_names(output.value) = output.value

(* The repair done occurrence by occurrence: a soft sign becomes a hard   *)
(* sign unless the letter right after it is O                              *)
RepairedPerOccurrence(name) ==
    [n \in DOMAIN name |->
        IF name[n] = Cyr_Soft /\ ~(n < Len(name) /\ name[n + 1] = Cyr_O)
        THEN Cyr_Hard
        ELSE name[n]]

(* C18, as claimed: in the result of fix_names every soft sign right      *)
(* before an O is kept and every other soft sign has become a hard sign,  *)
(* also in a name with more than one soft sign (the hyphens and the       *)
(* correction table are applied to the repaired name as always).           *)
C18_RepairPerOccurrence ==
    (input.fn = "fix_names" /\ output.status = "returned") =>
        output.value =
            NamesGet(PyReplace(RepairedPerOccurrence(input.arg), Ch_Hyphen, Ch_Space))

----------------------------------------------------------------------------
(* RegexPatternWrapper, lines 62-83: the character classes *)

(* \p{Lu}: the capital letters of the Latin and Cyrillic alphabets *)
IsLu(c) == c \in 65..90 \/ c \in 1040..1071
(* \s *)
IsWs(c) == c \in {Ch_Space, Ch_Tab, 10, 11, 12, 13}
(* \d *)
IsDigit(c) == c \in 48..57
(* name_part: [\s|-] *)
IsNamePartSep(c) == IsWs(c) \/ c = Ch_Pipe \/ c = Ch_Hyphen
(* separator: [\||\!] *)
IsSeparator(c) == c = Ch_Pipe \/ c = Ch_Bang

(* The first position from q on that does not hold a character of a class *)
RECURSIVE SkipWs(_, _)
SkipWs(str, q) ==
    IF q <= Len(str) /\ IsWs(str[q]) THEN SkipWs(str, q + 1) ELSE q

RECURSIVE SkipDigits(_, _)
SkipDigits(str, q) ==
    IF q <= Len(str) /\ IsDigit(str[q]) THEN SkipDigits(str, q + 1) ELSE q

NoMatch == [ok |-> FALSE, groups |-> <<>>]

(* number_group * k at position q: separator, \s*, (\d+), \s*, k times.   *)
(* Every quantifier is followed by a character outside its class, so the  *)
(* greedy match is the only one.                                           *)
RECURSIVE NumberGroups(_, _, _)
NumberGroups(str, q, k) ==
    IF k = 0 THEN [ok |-> TRUE, groups |-> <<>>]
    ELSE IF q > Len(str) \/ ~IsSeparator(str[q]) THEN NoMatch
    ELSE LET d == SkipWs(str, q + 1)
             e == SkipDigits(str, d)
         IN  IF e = d THEN NoMatch
             ELSE LET rest == NumberGroups(str, SkipWs(str, e), k - 1)
                  IN  IF rest.ok
                      THEN [ok |-> TRUE, groups |-> <<SubSeq(str, d, e - 1)>> \o rest.groups]
                      ELSE NoMatch

(* type_abbr at position p: one or two capital letters and a dot; the     *)
(* length matched, 0 for none                                              *)
TypeAbbrLen(str, p) ==
    IF p + 1 <= Len(str) /\ IsLu(str[p]) /\ str[p + 1] = Ch_Dot THEN 2
    ELSE IF p + 2 <= Len(str) /\ IsLu(str[p]) /\ IsLu(str[p + 1]) /\ str[p + 2] = Ch_Dot
         THEN 3
         ELSE 0

(* name = Lu+ (name_part){3}, name_part = [\s|-]*Lu*: str[p..e-1] is a    *)
(* capital letter followed by capitals and separators with at most three  *)
(* runs of separators                                                      *)
IsName(str, p, e) ==
    /\ p < e
    /\ e <= Len(str) + 1
    /\ IsLu(str[p])
    /\ \A j \in p..(e - 1) : IsLu(str[j]) \/ IsNamePartSep(str[j])
    /\ Cardinality({j \in (p + 1)..(e - 1) :
                      IsNamePartSep(str[j]) /\ IsLu(str[j - 1])}) <= 3

(* The pattern (type_abbr name)\s*(number_group){k} tried at position p:  *)
(* the greedy quantifiers of name give group 1 the longest possible end   *)
SettlementInfoAt(str, p, k) ==
    LET a == TypeAbbrLen(str, p)
        ends == {e \in (p + a + 1)..(Len(str) + 1) :
                    /\ IsName(str, p + a, e)
                    /\ NumberGroups(str, SkipWs(str, e), k).ok}
    IN  IF a = 0 \/ ends = {} THEN NoMatch
        ELSE LET e == CHOOSE x \in ends : \A y \in ends : y <= x
             IN  [ok |-> TRUE,
                  groups |-> <<SubSeq(str, p, e - 1)>>
                             \o NumberGroups(str, SkipWs(str, e), k).groups]

(* regex.search: the match at the leftmost position that has one *)
SearchSettlementInfo(str, k) ==
    LET starts == {p \in 1..Len(str) : SettlementInfoAt(str, p, k).ok}
    IN  IF starts = {} THEN NoMatch
        ELSE SettlementInfoAt(str, CHOOSE p \in starts : \A r \in starts : p <= r, k)

(* str.split(c): the pieces between the occurrences of c *)
RECURSIVE PySplit(_, _)
PySplit(str, c) ==
    LET at == PyFind(str, c, 0)
    IN  IF at = -1 THEN <<str>>
        ELSE <<SubSeq(str, 1, at)>> \o PySplit(SubSeq(str, at + 2, Len(str)), c)

(* str.strip() *)
RECURSIVE PyStrip(_)
PyStrip(str) ==
    IF str = <<>> THEN str
    ELSE IF IsWs(str[1]) THEN PyStrip(Tail(str))
    ELSE IF IsWs(str[Len(str)]) THEN PyStrip(SubSeq(str, 1, Len(str) - 1))
    ELSE str

(* Lines 377-384: the number of number groups of the pattern *)
NumberGroupCount(table_type) == IF table_type = "Quarterly" THEN 3 ELSE 6

(* Shifted by one group *)
PopulationPositionsShifted(table_type) ==
    IF table_type = "Quarterly" THEN <<3, 4>> ELSE <<3, 7>>

(* Lines 377-384: permanent_population_position, current_population_position: *)
(* indices of match groups, group 1 being the name                           *)
PopulationPositions(table_type) ==
    IF table_type = "Quarterly" THEN <<2, 3>> ELSE <<2, 6>>

SettlementInfo(n, p, c) ==
    [tag |-> "SettlementInfo", name |-> n, permanent_residents |-> p,
     current_residents |-> c]

(* parse_data_line, lines 372-397 *)
parse_data_line(line, table_type) ==
    LET settlement_info == SearchSettlementInfo(line, NumberGroupCount(table_type))
        pos == PopulationPositions(table_type)
    IN  IF ~settlement_info.ok THEN None
        ELSE LET name == settlement_info.groups[1]
                 permanent == settlement_info.groups[pos[1]]
                 current == settlement_info.groups[pos[2]]
                 name_parts == PySplit(name, Ch_Dot)
                 joined == name_parts[1] \o <<Ch_Dot, Ch_Space>> \o fix_names(name_parts[2])
             IN  SettlementInfo(PyStrip(joined), permanent, current)

----------------------------------------------------------------------------
(* Data lines given to parse_data_line *)

(* Most numeric fields on an enumerated line *)
MaxFields == 7

(* TP, S, GR *)
LineAbbrs == {<<1058, 1055>>, <<1057>>, <<1043, 1056>>}
(* PETROVO, GORNA BANYA, BOBOVDOL, SAN-STEFANO, KAPITAN PETKO VOJVODA,    *)
(* SIN(soft)O B(soft)RDO                                                   *)
LineNames == {<<1055, 1045, 1058, 1056, 1054, 1042, 1054>>,
              <<1043, 1054, 1056, 1053, 1040, 32, 1041, 1040, 1053, 1071>>,
              <<1041, 1054, 1041, 1054, 1042, 1044, 1054, 1051>>,
              <<1057, 1040, 1053, 45, 1057, 1058, 1045, 1060, 1040, 1053, 1054>>,
              <<1050, 1040, 1055, 1048, 1058, 1040, 1053, 32, 1055, 1045, 1058, 1050, 1054, 32, 1042, 1054, 1049, 1042, 1054, 1044, 1040>>,
              <<1057, 1048, 1053, 1068, 1054, 32, 1041, 1068, 1056, 1044, 1054>>}
LineGaps == {<<>>, <<Ch_Space, Ch_Space, Ch_Space>>}
LinePrefixes == {<<>>, <<Ch_Pipe, Ch_Space>>}
LineSeparators == {Ch_Pipe, Ch_Bang}

(* The digit texts "10", "20", ..., a second series with the values of the *)
(* documented quarterly line, and a third with leading zeros "001", ...    *)
FieldSeries ==
    {[j \in 1..MaxFields |-> <<48 + (j % 10), 48>>],
     [j \in 1..MaxFields |->
        CASE j = 1 -> <<49, 50, 48>> [] j = 2 -> <<57, 53>> [] j = 3 -> <<57, 48>>
          [] j = 4 -> <<55>> [] j = 5 -> <<48, 48, 55>> [] OTHER -> <<48 + (j % 10)>>],
     [j \in 1..MaxFields |-> <<48, 48, 48 + (j % 10)>>]}

(* prefix, abbreviation, dot, name, gap, then per field: separator, space, *)
(* digits, two spaces                                                      *)
RECURSIVE RenderFields(_, _)
RenderFields(fields, sep) ==
    IF fields = <<>> THEN <<>>
    ELSE <<sep, Ch_Space>> \o Head(fields) \o <<Ch_Space, Ch_Space>>
         \o RenderFields(Tail(fields), sep)

RenderLine(prefix, abbr, name, gap, fields, sep) ==
    prefix \o abbr \o <<Ch_Dot>> \o name \o gap \o RenderFields(fields, sep)

DataLineInputs ==
    {[fn |-> "parse_data_line",
      line |-> RenderLine(pre, ab, nm, gap, SubSeq(fs, 1, n), sep),
      table_type |-> tt, abbr |-> ab, name |-> nm, gap |-> gap,
      fields |-> SubSeq(fs, 1, n)] :
        pre \in LinePrefixes, ab \in LineAbbrs, nm \in LineNames, gap \in LineGaps,
        fs \in FieldSeries, n \in 0..MaxFields, sep \in LineSeparators,
        tt \in {"Quarterly", "Yearly"}}

InitParseDataLine ==
    /\ input \in DataLineInputs
    /\ output = Pending
    /\ file_combined = NoFile
    /\ IdleLines
    /\ IdleResolver
    /\ IdleAssembler

CallParseDataLine ==
    /\ input.fn = "parse_data_line"
    /\ output = Pending
    /\ output' = Returned(parse_data_line(input.line, input.table_type))
    /\ UNCHANGED <<input, file_combined, resolverVars, asmVars, linesVars>>

SpecParseDataLine == InitParseDataLine /\ [][CallParseDataLine]_vars

ParsedDataLine == input.fn = "parse_data_line" /\ output.status = "returned"

(* "10", "20", "30", "40", "50", "60" *)
TenToSixty == <<<<49, 48>>, <<50, 48>>, <<51, 48>>, <<52, 48>>, <<53, 48>>, <<54, 48>>>>

(* C6, as claimed: a yearly line with 6 numeric fields n1..n6 yields       *)
(* permanent = n2 and current = n6.                                        *)
C6_YearlySecondAndSixth ==
    (ParsedDataLine /\ input.table_type = "Yearly" /\ Len(input.fields) = 6) =>
        /\ output.value.tag = "SettlementInfo"
        /\ output.value.permanent_residents = input.fields[2]
        /\ output.value.current_residents = input.fields[6]

(* C6, amended: a yearly line with 6 numeric fields n1..n6 yields          *)
(* permanent = n1 and current = n5 (match groups 2 and 6, group 1 being    *)
(* the name); the fields 10, 20, 30, 40, 50, 60 yield 10 and 50.           *)
C6_YearlyFirstAndFifth ==
    (ParsedDataLine /\ input.table_type = "Yearly" /\ Len(input.fields) = 6) =>
        /\ output.value.tag = "SettlementInfo"
        /\ output.value.permanent_residents = input.fields[1]
        /\ output.value.current_residents = input.fields[5]
        /\ input.fields = TenToSixty =>
              /\ output.value.permanent_residents = <<49, 48>>
              /\ output.value.current_residents = <<53, 48>>

C6_Witness ==
    /\ ParsedDataLine
    /\ input.table_type = "Yearly"
    /\ input.fields = TenToSixty
    /\ output.value.tag = "SettlementInfo"

(* fix_names leaves such a name as it is: no soft sign, no hyphen, not a   *)
(* key of the correction table                                             *)
PlainName(n) ==
    /\ PyFind(n, Cyr_Soft, 0) = -1
    /\ PyFind(n, Ch_Hyphen, 0) = -1
    /\ \A e \in names : e[1] # n

----------------------------------------------------------------------------
(* mach_key_with_code: the resolver's matching and selection *)

(* str.lower() on Latin and Cyrillic letters *)
PyLower(str) ==
    [n \in 1..Len(str) |->
        IF str[n] \in 65..90 \/ str[n] \in 1040..1071 THEN str[n] + 32 ELSE str[n]]

(* str.find(sub) != -1 *)
Contains(str, sub) ==
    \E n \in 0..(Len(str) - Len(sub)) : SubSeq(str, n + 1, n + Len(sub)) = sub

(* The literals of lines 324-342 *)
SOFIJSKA == <<1057, 1054, 1060, 1048, 1049, 1057, 1050, 1040>>
Sofiya == <<1089, 1086, 1092, 1080, 1103>>
SMOLYAN == <<1057, 1052, 1054, 1051, 1071, 1053>>
Plovdivska == <<1087, 1083, 1086, 1074, 1076, 1080, 1074, 1089, 1082, 1072>>
PAZARDZHIK == <<1055, 1040, 1047, 1040, 1056, 1044, 1046, 1048, 1050>>
Pazardzhishki == <<1087, 1072, 1079, 1072, 1088, 1076, 1078, 1080, 1096, 1082, 1080>>

(* The three-part test of lines 318-322, with `region` the text looked for *)
(* in name part 1                                                          *)
PartsTest(full_name, region, key) ==
    /\ Contains(PyLower(full_name[1]), region)
    /\ Contains(PyLower(full_name[2]), PyLower(key[2]))
    /\ LET parts == PySplit(full_name[3], Ch_Dot)
       IN  PyLower(PyStrip(parts[Len(parts)])) = PyLower(key[3])

(* A match test without the fixed alternate terms *)
NameMatchesOwnRegion(full_name, key) == PartsTest(full_name, PyLower(key[1]), key)

(* Lines 318-346: the if / elif chain that appends to result_list *)
NameMatches(full_name, key) ==
    IF PartsTest(full_name, PyLower(key[1]), key) THEN TRUE
    ELSE IF PyLower(key[1]) = PyLower(SOFIJSKA) THEN PartsTest(full_name, Sofiya, key)
    ELSE IF PyLower(key[1]) = PyLower(SMOLYAN) THEN PartsTest(full_name, Plovdivska, key)
    ELSE IF PyLower(key[1]) = PyLower(PAZARDZHIK) THEN PartsTest(full_name, Pazardzhishki, key)
    ELSE FALSE

(* parse_raw_settlement_data, lines 277-304: the rows of the response are  *)
(* grouped by code into a dict, which keeps the codes in order of first    *)
(* appearance and, per code, the records in row order                      *)
RECURSIVE CodesInOrder(_)
CodesInOrder(rows) ==
    IF rows = <<>> THEN <<>>
    ELSE LET before == CodesInOrder(SubSeq(rows, 1, Len(rows) - 1))
             c == rows[Len(rows)].code
         IN  IF c \in {before[n] : n \in DOMAIN before} THEN before
             ELSE Append(before, c)

RECURSIVE RecordsOf(_, _)
RecordsOf(rows, c) ==
    IF rows = <<>> THEN <<>>
    ELSE IF Head(rows).code = c
         THEN <<Head(rows)>> \o RecordsOf(Tail(rows), c)
         ELSE RecordsOf(Tail(rows), c)

DataDict(rows) ==
    LET cs == CodesInOrder(rows)
    IN  [n \in 1..Len(cs) |-> [code |-> cs[n], names_list |-> RecordsOf(rows, cs[n])]]

(* Lines 315-346 for one code: the (validity end, (key, code)) of each     *)
(* matching record, in list order                                          *)
RECURSIVE MatchesOfCode(_, _, _)
MatchesOfCode(key, code, names_list) ==
    IF names_list = <<>> THEN <<>>
    ELSE (IF NameMatches(Head(names_list).name, key)
          THEN <<[last |-> Head(names_list).last,
                  sdt |-> SettlementDataTuple(key, code)]>>
          ELSE <<>>)
         \o MatchesOfCode(key, code, Tail(names_list))

(* Lines 314-346: result_list after both loops *)
RECURSIVE ResultList(_, _)
ResultList(key, data_dict) ==
    IF data_dict = <<>> THEN <<>>
    ELSE MatchesOfCode(key, Head(data_dict).code, Head(data_dict).names_list)
         \o ResultList(key, Tail(data_dict))

(* Line 349: sorted(result_list) builds a new list, which is dropped;     *)
(* result_list is left in the order of the loops                           *)
AfterSortedCall(result_list) == result_list

(* mach_key_with_code, lines 308-353 *)
mach_key_with_code(key, data_dict) ==
    LET result_list == AfterSortedCall(ResultList(key, data_dict))
    IN  IF Len(result_list) > 0 THEN result_list[Len(result_list)].sdt ELSE None

----------------------------------------------------------------------------
(* Responses given to mach_key_with_code *)

(* Most rows in an enumerated response, and the latest validity end *)
MaxRows == 2
MaxDate == 2

(* (BLAGOEVGRAD, SANDANSKI, PETROVO), (SOFIJSKA, SAMOKOV, PETROVO),       *)
(* (SMOLYAN, CHEPELARE, PETROVO) and (PAZARDZHIK, VELINGRAD, PETROVO)      *)
MatchKeys ==
    {<<<<1041, 1051, 1040, 1043, 1054, 1045, 1042, 1043, 1056, 1040, 1044>>,
       <<1057, 1040, 1053, 1044, 1040, 1053, 1057, 1050, 1048>>,
       <<1055, 1045, 1058, 1056, 1054, 1042, 1054>>>>,
     <<SOFIJSKA,
       <<1057, 1040, 1052, 1054, 1050, 1054, 1042>>,
       <<1055, 1045, 1058, 1056, 1054, 1042, 1054>>>>,
     <<SMOLYAN,
       <<1063, 1045, 1055, 1045, 1051, 1040, 1056, 1045>>,
       <<1055, 1045, 1058, 1056, 1054, 1042, 1054>>>>,
     <<PAZARDZHIK,
       <<1042, 1045, 1051, 1048, 1053, 1043, 1056, 1040, 1044>>,
       <<1055, 1045, 1058, 1056, 1054, 1042, 1054>>>>}

(* Name records as parse_raw_settlement_data builds them, outermost part  *)
(* first: "obl. Blagoevgrad", "obsht. Sandanski", "s. Petrovo";            *)
(* the same with "s. Petrovci"; "obl. Sofiya", "obsht. Samokov",           *)
(* "s. Petrovo"; "obl. Sofijska", "obsht. Samokov", "s. Petrovo";          *)
(* "obl. Plovdivska", "obsht. Chepelare", "s. Petrovo";                    *)
(* "Pazardzhishki okrag", "obsht. Velingrad", "s. Petrovo"                 *)
MatchNames ==
    {<<<<1086, 1073, 1083, 46, 32, 1041, 1083, 1072, 1075, 1086, 1077, 1074, 1075, 1088, 1072, 1076>>,
       <<1086, 1073, 1097, 46, 32, 1057, 1072, 1085, 1076, 1072, 1085, 1089, 1082, 1080>>,
       <<1089, 46, 32, 1055, 1077, 1090, 1088, 1086, 1074, 1086>>>>,
     <<<<1086, 1073, 1083, 46, 32, 1041, 1083, 1072, 1075, 1086, 1077, 1074, 1075, 1088, 1072, 1076>>,
       <<1086, 1073, 1097, 46, 32, 1057, 1072, 1085, 1076, 1072, 1085, 1089, 1082, 1080>>,
       <<1089, 46, 32, 1055, 1077, 1090, 1088, 1086, 1074, 1094, 1080>>>>,
     <<<<1086, 1073, 1083, 46, 32, 1057, 1086, 1092, 1080, 1103>>,
       <<1086, 1073, 1097, 46, 32, 1057, 1072, 1084, 1086, 1082, 1086, 1074>>,
       <<1089, 46, 32, 1055, 1077, 1090, 1088, 1086, 1074, 1086>>>>,
     <<<<1086, 1073, 1083, 46, 32, 1057, 1086, 1092, 1080, 1081, 1089, 1082, 1072>>,
       <<1086, 1073, 1097, 46, 32, 1057, 1072, 1084, 1086, 1082, 1086, 1074>>,
       <<1089, 46, 32, 1055, 1077, 1090, 1088, 1086, 1074, 1086>>>>,
     <<<<1086, 1073, 1083, 46, 32, 1055, 1083, 1086, 1074, 1076, 1080, 1074, 1089, 1082, 1072>>,
       <<1086, 1073, 1097, 46, 32, 1063, 1077, 1087, 1077, 1083, 1072, 1088, 1077>>,
       <<1089, 46, 32, 1055, 1077, 1090, 1088, 1086, 1074, 1086>>>>,
     <<<<1055, 1072, 1079, 1072, 1088, 1076, 1078, 1080, 1096, 1082, 1080, 32, 1086, 1082, 1088, 1098, 1075>>,
       <<1086, 1073, 1097, 46, 32, 1042, 1077, 1083, 1080, 1085, 1075, 1088, 1072, 1076>>,
       <<1089, 46, 32, 1055, 1077, 1090, 1088, 1086, 1074, 1086>>>>}

ResponseRows == [code : Codes, name : MatchNames, last : 1..MaxDate]

InitMatch ==
    /\ \E k \in MatchKeys, m \in 0..MaxRows :
           \E rs \in [1..m -> ResponseRows] :
               input = [fn |-> "mach_key_with_code", key |-> k, rows |-> rs]
    /\ output = Pending
    /\ file_combined = NoFile
    /\ IdleLines
    /\ IdleResolver
    /\ IdleAssembler

CallMatch ==
    /\ input.fn = "mach_key_with_code"
    /\ output = Pending
    /\ output' = Returned(mach_key_with_code(input.key, DataDict(input.rows)))
    /\ UNCHANGED <<input, file_combined, resolverVars, asmVars, linesVars>>

SpecMatch == InitMatch /\ [][CallMatch]_vars

(* The (validity end, code) pairs of the rows that match the key *)
MatchPairs ==
    {<<input.rows[n].last, input.rows[n].code>> :
        n \in {j \in DOMAIN input.rows : NameMatches(input.rows[j].name, input.key)}}

(* The greatest pair in the natural order of pairs *)
LatestPair ==
    CHOOSE a \in MatchPairs :
        \A b \in MatchPairs : b[1] < a[1] \/ (b[1] = a[1] /\ b[2] <= a[2])

(* C9, as claimed: the code returned is that of the match with the latest  *)
(* validity end, ties broken by the order of the (validity end, code)      *)
(* pairs, whatever the order of the response; with no match the result is  *)
(* None.                                                                   *)
C9_LatestValidityEndWins ==
    (input.fn = "mach_key_with_code" /\ output.status = "returned") =>
        IF MatchPairs = {} THEN output.value = None
        ELSE output.value = SettlementDataTuple(input.key, LatestPair[2])

----------------------------------------------------------------------------
(* combine_data: the period merger *)

(* Cell values of a DataFrame: text, the missing value, an integer *)
NaN == [tag |-> "nan"]
StrCell(s) == [tag |-> "str", s |-> s]
IntCell(n) == [tag |-> "int", n |-> n]

Raised(e) == [status |-> "raised", error |-> e]

(* A column label: 'region', ..., 'permanent_<date>', 'current_<date>';    *)
(* the three name columns carry no date                                    *)
Label(kind, date) == [kind |-> kind, date |-> date]

(* names = ['region', 'municipality', 'settlement'], line 588 *)
combine_names == <<Label("region", 0), Label("municipality", 0), Label("settlement", 0)>>

(* int(x) of a digit text *)
RECURSIVE DigitsValue(_)
DigitsValue(s) ==
    IF s = <<>> THEN 0
    ELSE 10 * DigitsValue(SubSeq(s, 1, Len(s) - 1)) + (s[Len(s)] - 48)

(* astype(int) on one cell of an object column; the missing value cannot  *)
(* be converted                                                            *)
PyInt(cell) ==
    IF cell.tag = "int" THEN cell
    ELSE IF cell.tag = "str" THEN IntCell(DigitsValue(cell.s))
    ELSE [tag |-> "ValueError"]

(* The positions of the columns whose label is not in `labels` *)
RECURSIVE KeptColumns(_, _, _)
KeptColumns(columns, labels, n) ==
    IF n > Len(columns) THEN <<>>
    ELSE (IF columns[n] \in Range(labels) THEN <<>> ELSE <<n>>)
         \o KeptColumns(columns, labels, n + 1)

(* df.drop(labels=..., axis=1), lines 592 and 594 *)
Drop(df, labels) ==
    LET keep == KeptColumns(df.columns, labels, 1)
    IN  [columns |-> [n \in DOMAIN keep |-> df.columns[keep[n]]],
         rows |-> [r \in DOMAIN df.rows |->
                     [ekatte |-> df.rows[r].ekatte,
                      cells |-> [n \in DOMAIN keep |-> df.rows[r].cells[keep[n]]]]]]

IndexValues(df) == {df.rows[r].ekatte : r \in DOMAIN df.rows}

(* The rows of df with index value k, or one row of missing values *)
RowsWith(df, k) ==
    LET found == SelectSeq(df.rows, LAMBDA row : row.ekatte = k)
    IN  IF found = <<>>
        THEN <<[ekatte |-> k, cells |-> [n \in DOMAIN df.columns |-> NaN]]>>
        ELSE found

(* Every left row with index k joined with every right row with index k *)
JoinedRows(lrows, rrows) ==
    [n \in 1..(Len(lrows) * Len(rrows)) |->
        LET a == ((n - 1) \div Len(rrows)) + 1
            b == ((n - 1) % Len(rrows)) + 1
        IN  [ekatte |-> lrows[a].ekatte, cells |-> lrows[a].cells \o rrows[b].cells]]

RECURSIVE MergeRows(_, _, _)
MergeRows(left, right, keys) ==
    IF keys = <<>> THEN <<>>
    ELSE JoinedRows(RowsWith(left, Head(keys)), RowsWith(right, Head(keys)))
         \o MergeRows(left, right, Tail(keys))

(* An inner join keeps only the index values of both sides *)
MergeInner(left, right) ==
    [columns |-> left.columns \o right.columns,
     rows |-> MergeRows(left, right,
                        SortedSeq(IndexValues(left) \cap IndexValues(right)))]

(* combined.merge(df, how='outer', left_index=True, right_index=True),    *)
(* lines 595-599: the union of the index values, in sorted order           *)
MergeOuter(left, right) ==
    [columns |-> left.columns \o right.columns,
     rows |-> MergeRows(left, right,
                        SortedSeq(IndexValues(left) \cup IndexValues(right)))]

(* Lines 591-599: the loop over processed_data *)
RECURSIVE MergeAll(_, _)
MergeAll(combined, rest) ==
    IF rest = <<>> THEN combined
    ELSE MergeAll(MergeOuter(combined, Drop(Head(rest), combine_names)), Tail(rest))

(* combined.fillna(value=0, inplace=True), line 601 *)
FillNa(df, value) ==
    [columns |-> df.columns,
     rows |-> [r \in DOMAIN df.rows |->
                 [ekatte |-> df.rows[r].ekatte,
                  cells |-> [n \in DOMAIN df.rows[r].cells |->
                               IF df.rows[r].cells[n] = NaN THEN IntCell(value)
                               ELSE df.rows[r].cells[n]]]]]

(* Lines 602-603: every column .astype(int) *)
AsTypeInt(df) ==
    [columns |-> df.columns,
     rows |-> [r \in DOMAIN df.rows |->
                 [ekatte |-> df.rows[r].ekatte,
                  cells |-> [n \in DOMAIN df.rows[r].cells |->
                               PyInt(df.rows[r].cells[n])]]]]

(* Lines 586-603: the combined table, or the AttributeError of            *)
(* None.fillna when there is no period table                               *)
combine_data(processed_data) ==
    IF processed_data = <<>> THEN Raised("AttributeError")
    ELSE Returned(AsTypeInt(FillNa(
             MergeAll(Drop(Head(processed_data), combine_names), Tail(processed_data)),
             0)))

----------------------------------------------------------------------------
(* Period tables given to combine_data *)

(* Number of stable codes and most period tables in an enumerated input *)
NumEkatte == 3
MaxPeriods == 3

Ekattes == 1..NumEkatte

(* The decimal digits of n *)
RECURSIVE Digits(_)
Digits(n) == IF n < 10 THEN <<48 + n>> ELSE Digits(n \div 10) \o <<48 + (n % 10)>>

(* The digit text of a count as the table parser captures it, with `pad`  *)
(* leading zeros                                                           *)
CountText(n, pad) == [j \in 1..pad |-> 48] \o Digits(n)

(* The rows of a period table in descending order of code *)
RECURSIVE PeriodRows(_, _, _)
PeriodRows(count, pad, todo) ==
    IF todo = {} THEN <<>>
    ELSE LET c == CHOOSE x \in todo : \A y \in todo : y <= x
         IN  <<[ekatte |-> c,
                cells |-> <<StrCell(<<Cyr_A>>), StrCell(<<Cyr_O>>), StrCell(<<Cyr_A, Cyr_O>>),
                            StrCell(CountText(count[c][1], pad)),
                            StrCell(CountText(count[c][2], pad))>>]>>
             \o PeriodRows(count, pad, todo \ {c})

(* The table of period d as disambiguate_data leaves it (lines 550-580):  *)
(* indexed by code, no code twice, the counts still digit text             *)
PeriodTable(d, count, pad) ==
    [columns |-> combine_names \o <<Label("permanent", d), Label("current", d)>>,
     rows |-> PeriodRows(count, pad, DOMAIN count)]

PeriodTables(counts, pad) ==
    [d \in DOMAIN counts |-> PeriodTable(d, counts[d], pad)]

(* P1 = {A:(1,0), B:(2,0)}, P2 = {B:(0,3), C:(0,4)} with A, B, C = 1, 2, 3 *)
ExampleCounts ==
    <<(1 :> <<1, 0>>) @@ (2 :> <<2, 0>>),
      (2 :> <<0, 3>>) @@ (3 :> <<0, 4>>)>>

(* In period d the code c has the counts 10 d + c and c + d *)
CountsOf(present) ==
    [d \in DOMAIN present |-> [c \in present[d] |-> <<10 * d + c, c + d>>]]

InitCombine ==
    /\ \E pd \in {0, 1} :
           \/ \E m \in 0..MaxPeriods :
                  \E present \in [1..m -> SUBSET Ekattes] :
                      input = [fn |-> "combine_data", counts |-> CountsOf(present),
                               pad |-> pd]
           \/ input = [fn |-> "combine_data", counts |-> ExampleCounts, pad |-> pd]
    /\ output = Pending
    /\ file_combined = NoFile
    /\ IdleLines
    /\ IdleResolver
    /\ IdleAssembler

(* combine_data, lines 586-607: the result is pickled as 'combined_tables' *)
(* before it is returned                                                   *)
CallCombine ==
    /\ input.fn = "combine_data"
    /\ output = Pending
    /\ output' = combine_data(PeriodTables(input.counts, input.pad))
    /\ file_combined' = IF output'.status = "returned"
                        THEN PickleDump(output'.value) ELSE file_combined
    /\ UNCHANGED <<input, resolverVars, asmVars, linesVars>>

SpecCombine == InitCombine /\ [][CallCombine]_vars

(* The count of code c in period d, 0 when the period has no row for c *)
CountOrZero(d, c, k) ==
    IF c \in DOMAIN input.counts[d] THEN input.counts[d][c][k] ELSE 0

(* C10: the combined table has exactly one row for every code of any      *)
(* period table, a permanent and a current column per period in the order  *)
(* of the periods, and in them the integer counts of the code, 0 where the *)
(* period has no row for it; (1,0),(2,0) and (0,3),(0,4) merge to          *)
(* A (1,0,0,0), B (2,0,0,3), C (0,0,0,4).                                  *)
C10_OuterUnionZeroFill ==
    (input.fn = "combine_data" /\ output.status = "returned") =>
        LET rows == output.value.rows
            m == Len(input.counts)
            codes == UNION {DOMAIN input.counts[d] : d \in 1..m}
        IN  /\ {rows[r].ekatte : r \in DOMAIN rows} = codes
            /\ Len(rows) = Cardinality(codes)
            /\ output.value.columns =
                   [n \in 1..(2 * m) |->
                       IF n % 2 = 1 THEN Label("permanent", (n + 1) \div 2)
                       ELSE Label("current", n \div 2)]
            /\ \A r \in DOMAIN rows :
                   rows[r].cells =
                       [n \in 1..(2 * m) |->
                           IF n % 2 = 1
                           THEN IntCell(CountOrZero((n + 1) \div 2, rows[r].ekatte, 1))
                           ELSE IntCell(CountOrZero(n \div 2, rows[r].ekatte, 2))]
            /\ input.counts = ExampleCounts =>
                   Range(rows) =
                       {[ekatte |-> 1,
                         cells |-> <<IntCell(1), IntCell(0), IntCell(0), IntCell(0)>>],
                        [ekatte |-> 2,
                         cells |-> <<IntCell(2), IntCell(0), IntCell(0), IntCell(3)>>],
                        [ekatte |-> 3,
                         cells |-> <<IntCell(0), IntCell(0), IntCell(0), IntCell(4)>>]}

(* The example has been merged: C, absent from the first period, has a row *)
(* with zeros there, and the digit text was padded                         *)
C10_Witness ==
    /\ input.fn = "combine_data"
    /\ input.counts = ExampleCounts
    /\ input.pad = 1
    /\ output.status = "returned"
    /\ \E r \in DOMAIN output.value.rows :
           /\ output.value.rows[r].ekatte = 3
           /\ output.value.rows[r].cells[1] = IntCell(0)
           /\ output.value.rows[r].cells[4] = IntCell(4)

----------------------------------------------------------------------------
(* disambiguate_data, lines 550-580: a period table is re-keyed by code *)

(* Most rows of an enumerated period table *)
MaxTableRows == 3

(* updt, lines 557-568: processed_sdts.get(key of the row's name, None) *)
(* A code as a cell of the table *)
CodeCell(c) == [tag |-> "code", code |-> c]

updt(name, key_of, sdts) ==
    IF key_of[name] \in DOMAIN sdts THEN CodeCell(sdts[key_of[name]]) ELSE None

(* Line 570: every row of df.to_numpy(), in row order, with its code; a   *)
(* row is written as its position in the table and its raw name           *)
UpdatedRows(rows, key_of, sdts) ==
    [r \in DOMAIN rows |->
        [ekatte |-> updt(rows[r], key_of, sdts), row |-> r, name |-> rows[r]]]

(* df.dropna(inplace=True), line 575 *)
DropNa(df) == SelectSeq(df, LAMBDA x : x.ekatte # None)

(* df.index.duplicated(keep='last'): marks all but the last occurrence *)
DuplicatedKeepLast(df) ==
    [r \in DOMAIN df |-> \E q \in (r + 1)..Len(df) : df[q].ekatte = df[r].ekatte]

(* df.index.duplicated(keep='first'), line 578: marks all but the first   *)
(* occurrence of an index value                                            *)
DuplicatedKeepFirst(df) ==
    [r \in DOMAIN df |-> \E q \in 1..(r - 1) : df[q].ekatte = df[r].ekatte]

(* df.loc[~mask], line 578 *)
RECURSIVE LocNot(_, _)
LocNot(df, mask) ==
    IF df = <<>> THEN <<>>
    ELSE (IF Head(mask) THEN <<>> ELSE <<Head(df)>>) \o LocNot(Tail(df), Tail(mask))

(* Lines 551-578 for one period table *)
RekeyedTable(rows, key_of, sdts) ==
    LET df == DropNa(UpdatedRows(rows, key_of, sdts))
    IN  LocNot(df, DuplicatedKeepFirst(df))

(* The mappings key -> code that the resolver loop can leave *)
PartialDicts(K, V) == UNION {[D -> V] : D \in SUBSET K}

InitRekey ==
    /\ \E m \in 0..MaxTableRows :
           \E rows \in [1..m -> Names], ko \in KeyAssignments,
              sdts \in PartialDicts(Keys, Codes) :
               input = [fn |-> "rekey", rows |-> rows, key_of |-> ko, sdts |-> sdts]
    /\ output = Pending
    /\ file_combined = NoFile
    /\ IdleLines
    /\ IdleResolver
    /\ IdleAssembler

CallRekey ==
    /\ input.fn = "rekey"
    /\ output = Pending
    /\ output' = Returned(RekeyedTable(input.rows, input.key_of, input.sdts))
    /\ UNCHANGED <<input, file_combined, resolverVars, asmVars, linesVars>>

SpecRekey == InitRekey /\ [][CallRekey]_vars

(* The positions of the table rows whose name resolves to the code c *)
RowsOfCode(c) ==
    {r \in DOMAIN input.rows :
        updt(input.rows[r], input.key_of, input.sdts) = CodeCell(c)}

(* C11: in the table keyed by code every code indexes at most one row,    *)
(* every code some row resolves to has a row, and that row is the first   *)
(* of the table's rows that resolve to the code.                          *)
C11_FirstRowPerCode ==
    (input.fn = "rekey" /\ output.status = "returned") =>
        LET out == output.value
        IN  /\ \A a, b \in DOMAIN out : out[a].ekatte = out[b].ekatte => a = b
            /\ {out[a].ekatte : a \in DOMAIN out} =
                   {CodeCell(c) : c \in {x \in Codes : RowsOfCode(x) # {}}}
            /\ \A a \in DOMAIN out :
                   /\ out[a].row \in RowsOfCode(out[a].ekatte.code)
                   /\ \A r \in RowsOfCode(out[a].ekatte.code) : out[a].row <= r

(* Two rows with different names and different keys resolve to one code,  *)
(* and the table keyed by code has been built                              *)
C11_Witness ==
    /\ input.fn = "rekey"
    /\ output.status = "returned"
    /\ \E r, q \in DOMAIN input.rows :
           /\ r < q
           /\ input.key_of[input.rows[r]] # input.key_of[input.rows[q]]
           /\ \E c \in Codes : {r, q} \subseteq RowsOfCode(c)

----------------------------------------------------------------------------
(* Configuration._data_tuple_from_entry: the layout of a descriptor *)

DataTuple(data, header_type, table_type) ==
    [tag |-> "DataTuple", data |-> data, header_type |-> header_type,
     table_type |-> table_type]

(* HeaderEnum(b) of a bool: HeaderEnum(True) is New, HeaderEnum(False) Old *)
HeaderEnum(b) == IF b THEN "New" ELSE "Old"

DigitsAt(entry, p, n) ==
    /\ p + n - 1 <= Len(entry)
    /\ \A q \in p..(p + n - 1) : IsDigit(entry[q])

(* date_group, (\d{2}-\d{4}), matches at position p *)
DateGroupAt(entry, p) ==
    /\ DigitsAt(entry, p, 2)
    /\ p + 2 <= Len(entry)
    /\ entry[p + 2] = Ch_Hyphen
    /\ DigitsAt(entry, p + 3, 4)

(* year_group, (\d{4}), matches at position p *)
YearGroupAt(entry, p) == DigitsAt(entry, p, 4)

(* regex.search(year_group, entry).group(1): the leftmost match *)
YearGroupSearch(entry) ==
    LET p == CHOOSE q \in DOMAIN entry :
                 /\ YearGroupAt(entry, q)
                 /\ \A r \in 1..(q - 1) : ~YearGroupAt(entry, r)
    IN  SubSeq(entry, p, p + 3)

(* A threshold that counts 2005 as New *)
HeaderOfYearInclusive(y) == HeaderEnum(y >= 2005)

(* Line 161: HeaderEnum(int(date.group(1)) > 2005) *)
HeaderOfYear(y) == HeaderEnum(y > 2005)

(* Lines 155-162; when neither pattern is found the function ends without *)
(* a return statement, which returns None                                  *)
data_tuple_from_entry(entry) ==
    IF \E p \in DOMAIN entry : DateGroupAt(entry, p)
    THEN DataTuple(entry, HeaderEnum(TRUE), "Quarterly")
    ELSE IF \E p \in DOMAIN entry : YearGroupAt(entry, p)
         THEN DataTuple(entry, HeaderOfYear(DigitsValue(YearGroupSearch(entry))), "Yearly")
         ELSE None

(* Descriptors: a prefix, a dated part and a suffix.  "t", "tab02_", "a/" *)
EntryPrefixes == {<<116>>, <<116, 97, 98, 48, 50, 95>>, <<97, 47>>}
(* A path that names another year, before a day-month-year date: "1999/t-15-" *)
EntryYearPrefix == <<49, 57, 57, 57, 47, 116, 45, 49, 53, 45>>
(* "", ".txt", "_2.txt" *)
EntrySuffixes == {<<>>, <<46, 116, 120, 116>>, <<95, 50, 46, 116, 120, 116>>}
EntryYears == {1998, 2004, 2005, 2006, 2007, 2020}
EntryMonths == {3, 12}

(* Two digits of a month *)
TwoDigits(n) == <<48 + (n \div 10), 48 + (n % 10)>>

(* kind "date": mm-yyyy; kind "year": yyyy; kind "none": no digits added *)
EntryBody(kind, month, year) ==
    CASE kind = "date" -> TwoDigits(month) \o <<Ch_Hyphen>> \o Digits(year)
      [] kind = "year" -> Digits(year)
      [] OTHER -> <<>>

EntryInputs ==
    {[fn |-> "classify", kind |-> k, month |-> m, year |-> y,
      entry |-> pre \o EntryBody(k, m, y) \o suf] :
        k \in {"date", "year", "none"}, m \in EntryMonths, y \in EntryYears,
        pre \in EntryPrefixes, suf \in EntrySuffixes}
    \cup {[fn |-> "classify", kind |-> "date", month |-> m, year |-> y,
           entry |-> EntryYearPrefix \o EntryBody("date", m, y) \o suf] :
             m \in EntryMonths, y \in EntryYears, suf \in EntrySuffixes}

InitClassify ==
    /\ input \in EntryInputs
    /\ output = Pending
    /\ file_combined = NoFile
    /\ IdleLines
    /\ IdleResolver
    /\ IdleAssembler

(* process_data_configuration, lines 148-153: the result of the           *)
(* classifier, whatever it is, is appended to the output list              *)
CallClassify ==
    /\ input.fn = "classify"
    /\ output = Pending
    /\ output' = Returned(data_tuple_from_entry(input.entry))
    /\ UNCHANGED <<input, file_combined, resolverVars, asmVars, linesVars>>

(* process_data, lines 480-481: the first use of the list reads           *)
(* data_tuple.table_type, which None does not have                         *)
ProcessEntry ==
    /\ input.fn = "classify"
    /\ output.status = "returned"
    /\ output' = IF output.value = None THEN Raised("AttributeError")
                 ELSE [status |-> "processing", value |-> output.value]
    /\ UNCHANGED <<input, file_combined, resolverVars, asmVars, linesVars>>

NextClassify == CallClassify \/ ProcessEntry

SpecClassify == InitClassify /\ [][NextClassify]_vars

(* C12, as claimed: for a descriptor with neither pattern the classifier  *)
(* returns no value; it raises a ClassificationError, which ends the run.  *)
C12_ClassifierRaises ==
    (input.fn = "classify" /\ input.kind = "none" /\ output # Pending) =>
        output = Raised("ClassificationError")

(* C13: a descriptor with a mm-yyyy date is (New, Quarterly) whatever     *)
(* year it also names; otherwise a descriptor with a year y is Yearly,     *)
(* New when y > 2005 and Old when y <= 2005.                               *)
C13_ClassifierRules ==
    (input.fn = "classify" /\ output.status = "returned") =>
        /\ input.kind = "date" =>
               output.value = DataTuple(input.entry, "New", "Quarterly")
        /\ input.kind = "year" =>
               output.value = DataTuple(input.entry,
                                        IF input.year > 2005 THEN "New" ELSE "Old",
                                        "Yearly")

(* A descriptor of the year 2005 has been classified Old, and one with a  *)
(* date after another year is not classified by that year                  *)
C13_Witness ==
    /\ input.fn = "classify"
    /\ output.status = "returned"
    /\ input.kind = "year"
    /\ input.year = 2005
    /\ output.value.header_type = "Old"
    /\ output.value.table_type = "Yearly"

----------------------------------------------------------------------------
(* parse_lines: header lines and data lines of a document *)

(* \p{Ll}: the small letters of the Latin and Cyrillic alphabets *)
IsLl(c) == c \in 97..122 \/ c \in 1072..1103
(* name_part_old: [\.|\s|-] *)
IsOldNamePartSep(c) == c = Ch_Dot \/ c = Ch_Pipe \/ IsWs(c) \/ c = Ch_Hyphen

RECURSIVE SkipLu(_, _)
SkipLu(str, q) ==
    IF q <= Len(str) /\ IsLu(str[q]) THEN SkipLu(str, q + 1) ELSE q

RECURSIVE SkipLl(_, _)
SkipLl(str, q) ==
    IF q <= Len(str) /\ IsLl(str[q]) THEN SkipLl(str, q + 1) ELSE q

(* name_part_old * k at position q: one separator and capitals, k times;  *)
(* the position after the match, 0 for none.  Every run of capitals must  *)
(* be followed by a separator, so the greedy match is the only one.        *)
RECURSIVE OldNameParts(_, _, _)
OldNameParts(str, q, k) ==
    IF k = 0 THEN q
    ELSE IF q > Len(str) \/ ~IsOldNamePartSep(str[q]) THEN 0
    ELSE OldNameParts(str, SkipLu(str, q + 1), k - 1)

(* name_old = Lu+ (name_part_old){3} at position p *)
OldNameEnd(str, p) ==
    IF p > Len(str) \/ ~IsLu(str[p]) THEN 0
    ELSE OldNameParts(str, SkipLu(str, p), 3)

NoMatchObject == [ok |-> FALSE, groups |-> <<>>]

(* regex.search of old_reg or old_mun: the literal, then (name_old) *)
SearchOld(literal, str) ==
    LET starts == {p \in 1..Len(str) :
                     /\ p + Len(literal) - 1 <= Len(str)
                     /\ SubSeq(str, p, p + Len(literal) - 1) = literal
                     /\ OldNameEnd(str, p + Len(literal)) # 0}
    IN  IF starts = {} THEN NoMatchObject
        ELSE LET p == CHOOSE x \in starts : \A y \in starts : x <= y
                 b == p + Len(literal)
             IN  [ok |-> TRUE, groups |-> <<SubSeq(str, b, OldNameEnd(str, b) - 1)>>]

(* 'OBLAST:' and 'OBSHTINA:' of old_reg and old_mun *)
OldRegLiteral == <<1054, 1041, 1051, 1040, 1057, 1058, 58>>
OldMunLiteral == <<1054, 1041, 1065, 1048, 1053, 1040, 58>>

(* The longest name from position p: the position after it, 0 for none *)
NameEnd(str, p) ==
    LET ends == {e \in (p + 1)..(Len(str) + 1) : IsName(str, p, e)}
    IN  IF ends = {} THEN 0 ELSE CHOOSE e \in ends : \A y \in ends : y <= e

(* region_name_new, word (name) word (name), tried at position p *)
RegionNameNewAt(str, p) ==
    LET a == SkipLl(str, p)
        firsts == {e \in (a + 2)..Len(str) :
                     /\ IsName(str, a + 1, e)
                     /\ str[e] = Ch_Space
                     /\ SkipLl(str, e + 1) > e + 1
                     /\ SkipLl(str, e + 1) <= Len(str)
                     /\ str[SkipLl(str, e + 1)] = Ch_Space
                     /\ NameEnd(str, SkipLl(str, e + 1) + 1) # 0}
    IN  IF a = p \/ a > Len(str) \/ str[a] # Ch_Space \/ firsts = {} THEN NoMatchObject
        ELSE LET e == CHOOSE x \in firsts : \A y \in firsts : y <= x
                 b == SkipLl(str, e + 1) + 1
             IN  [ok |-> TRUE,
                  groups |-> <<SubSeq(str, a + 1, e - 1),
                               SubSeq(str, b, NameEnd(str, b) - 1)>>]

SearchRegionNameNew(str) ==
    LET starts == {p \in 1..Len(str) : RegionNameNewAt(str, p).ok}
    IN  IF starts = {} THEN NoMatchObject
        ELSE RegionNameNewAt(str, CHOOSE p \in starts : \A r \in starts : p <= r)

MunicipalityIdentifier(reg, mun) ==
    [tag |-> "MunicipalityIdentifier", region |-> reg, municipality |-> mun]

(* parse_header_line, lines 399-423: what it returns and what it leaves   *)
(* in parse_header_line.region, a match object or None                     *)
parse_header_line(line, header_type, buffered) ==
    IF header_type = "New"
    THEN LET region_gr == SearchRegionNameNew(line)
         IN  [region_name |-> IF region_gr.ok
                              THEN MunicipalityIdentifier(PyStrip(region_gr.groups[1]),
                                                          PyStrip(region_gr.groups[2]))
                              ELSE None,
              region |-> buffered]
    ELSE IF buffered = None
         THEN [region_name |-> None,
               region |-> LET m == SearchOld(OldRegLiteral, line)
                          IN  IF m.ok THEN m ELSE None]
         ELSE LET mun_gr == SearchOld(OldMunLiteral, line)
              IN  [region_name |-> IF mun_gr.ok
                                   THEN MunicipalityIdentifier(
                                            fix_names(PyStrip(buffered.groups[1])),
                                            fix_names(PyStrip(mun_gr.groups[1])))
                                   ELSE None,
                   region |-> None]

(* Most lines of an enumerated document *)
MaxLines == 4

(* Region and municipality names of the documents: VARNA, RUSE; AVREN *)
DocRegions == {<<1042, 1040, 1056, 1053, 1040>>, <<1056, 1059, 1057, 1045>>}
DocMunicipalities == {<<1040, 1042, 1056, 1045, 1053>>}

(* The lines of an Old-format header, padded with blanks as in the source *)
(* documents, and a New-format header line: "oblast R obshtina M"          *)
RegionLine(r) == OldRegLiteral \o r \o <<Ch_Space, Ch_Space, Ch_Space>>
MunicipalityLine(m) == OldMunLiteral \o m \o <<Ch_Space, Ch_Space, Ch_Space>>
NewHeaderLine(r, m) ==
    <<1086, 1073, 1083, 1072, 1089, 1090, 32>> \o r \o <<32, 1086, 1073, 1097, 1080, 1085, 1072, 32>> \o m

RegionLines == {RegionLine(r) : r \in DocRegions}
MunicipalityLines == {MunicipalityLine(m) : m \in DocMunicipalities}

(* An empty line and the yearly data line "S.BANYA!1!2!3!4!5!6" *)
OtherLines == {<<>>, <<1057, 46, 1041, 1040, 1053, 1071, 33, 49, 33, 50, 33, 51, 33, 52, 33, 53, 33, 54>>}

DocLines ==
    RegionLines \cup MunicipalityLines \cup OtherLines
    \cup {NewHeaderLine(r, m) : r \in DocRegions, m \in DocMunicipalities}

(* parse_lines begins: the static attribute is None (line 399), the two   *)
(* dicts are empty                                                         *)
InitLines ==
    /\ \E m \in 0..MaxLines, h \in {"Old", "New"} :
           \E lines \in [1..m -> DocLines] :
               data_tuple = [data |-> lines, header_type |-> h, table_type |-> "Yearly"]
    /\ header_region = None
    /\ line_num = 0
    /\ municipality_ids = EmptyDict
    /\ settlements_info = EmptyDict
    /\ lines_pc = "loop"
    /\ input = [fn |-> "none"]
    /\ output = [status |-> "pending"]
    /\ file_combined = NoFile
    /\ IdleResolver
    /\ IdleAssembler

CurLine == data_tuple.data[line_num + 1]
CurHeader == parse_header_line(CurLine, data_tuple.header_type, header_region)

(* Lines 428-432: the line is a header *)
LinesHeader ==
    /\ lines_pc = "loop"
    /\ line_num < Len(data_tuple.data)
    /\ CurHeader.region_name # None
    /\ header_region' = CurHeader.region
    /\ municipality_ids' = DictSet(municipality_ids, line_num, CurHeader.region_name)
    /\ line_num' = line_num + 1
    /\ UNCHANGED <<data_tuple, settlements_info, lines_pc, resolverVars, asmVars,
                   callVars>>

(* Lines 428-436: the line is no header and goes to parse_data_line *)
LinesData ==
    /\ lines_pc = "loop"
    /\ line_num < Len(data_tuple.data)
    /\ CurHeader.region_name = None
    /\ header_region' = CurHeader.region
    /\ LET settlement_info == parse_data_line(CurLine, data_tuple.table_type)
       IN  settlements_info' = IF settlement_info # None
                               THEN DictSet(settlements_info, line_num, settlement_info)
                               ELSE settlements_info
    /\ line_num' = line_num + 1
    /\ UNCHANGED <<data_tuple, municipality_ids, lines_pc, resolverVars, asmVars,
                   callVars>>

(* Line 438 *)
LinesReturn ==
    /\ lines_pc = "loop"
    /\ line_num = Len(data_tuple.data)
    /\ lines_pc' = "done"
    /\ UNCHANGED <<data_tuple, header_region, line_num, municipality_ids,
                   settlements_info, resolverVars, asmVars, callVars>>

NextLines == LinesHeader \/ LinesData \/ LinesReturn

SpecLines == InitLines /\ [][NextLines]_vars

(* The step that reads one line of an Old-format document *)
OldLineStep ==
    /\ lines_pc = "loop"
    /\ data_tuple.header_type = "Old"
    /\ line_num' = line_num + 1

(* C14, as claimed: with no region buffered a region line buffers its     *)
(* region and a municipality line emits nothing; with a region buffered a *)
(* municipality line emits the header (buffered region, municipality) at  *)
(* its own position and clears the buffer, and any other line leaves the  *)
(* buffer as it is and emits nothing.                                      *)
C14_OldHeaderMachine ==
    [][OldLineStep =>
        /\ (header_region = None /\ CurLine \in RegionLines) =>
               /\ header_region' # None
               /\ CurLine = RegionLine(PyStrip(header_region'.groups[1]))
               /\ municipality_ids' = municipality_ids
        /\ (header_region = None /\ CurLine \in MunicipalityLines) =>
               /\ header_region' = None
               /\ municipality_ids' = municipality_ids
        /\ (header_region # None /\ CurLine \in MunicipalityLines) =>
               /\ header_region' = None
               /\ \E m \in DocMunicipalities :
                      /\ CurLine = MunicipalityLine(m)
                      /\ municipality_ids' =
                             DictSet(municipality_ids, line_num,
                                     MunicipalityIdentifier(
                                         PyStrip(header_region.groups[1]), m))
        /\ (header_region # None /\ CurLine \notin MunicipalityLines) =>
               /\ header_region' = header_region
               /\ municipality_ids' = municipality_ids
    ]_vars

----------------------------------------------------------------------------
(* The region override of mach_key_with_code *)

(* The municipality and settlement tests of a name record *)
LowerPartsHold(full_name, key) ==
    /\ Contains(PyLower(full_name[2]), PyLower(key[2]))
    /\ LET parts == PySplit(full_name[3], Ch_Dot)
       IN  PyLower(PyStrip(parts[Len(parts)])) = PyLower(key[3])

(* The alternate term of the three fixed regions *)
HasAlternate(key) == key[1] \in {SOFIJSKA, SMOLYAN, PAZARDZHIK}
Alternate(key) ==
    CASE key[1] = SOFIJSKA -> Sofiya
      [] key[1] = SMOLYAN -> Plovdivska
      [] key[1] = PAZARDZHIK -> Pazardzhishki

(* The rows of the response that satisfy a test *)
RowsThat(Test(_, _)) ==
    {n \in DOMAIN input.rows : Test(input.rows[n].name, input.key)}

(* The result is the code of a row that satisfies the test, None if no    *)
(* row does                                                                *)
ResultFollows(Test(_, _)) ==
    IF RowsThat(Test) = {} THEN output.value = None
    ELSE /\ output.value # None
         /\ \E n \in RowsThat(Test) :
                output.value = SettlementDataTuple(input.key, input.rows[n].code)

(* The test as claimed: the alternate term in place of the key's region *)
AlternateInPlace(full_name, key) ==
    /\ LowerPartsHold(full_name, key)
    /\ Contains(PyLower(full_name[1]),
                IF HasAlternate(key) THEN Alternate(key) ELSE PyLower(key[1]))

(* The test of the code: the key's region, or else the alternate term *)
AlternateAsWell(full_name, key) ==
    /\ LowerPartsHold(full_name, key)
    /\ \/ Contains(PyLower(full_name[1]), PyLower(key[1]))
       \/ HasAlternate(key) /\ Contains(PyLower(full_name[1]), Alternate(key))

(* C17, as claimed: for a key of one of the three fixed regions a record  *)
(* matches exactly when name part 1 contains the alternate term and the   *)
(* municipality and settlement tests hold; for any other key the key's    *)
(* own region is the text looked for.                                      *)
C17_AlternateInPlace ==
    (input.fn = "mach_key_with_code" /\ output.status = "returned") =>
        ResultFollows(AlternateInPlace)

(* C17, amended: for a key of one of the three fixed regions a record     *)
(* matches exactly when name part 1 contains the key's region or the      *)
(* alternate term and the municipality and settlement tests hold; for any *)
(* other key the key's own region is the text looked for.                  *)
C17_AlternateAsWell ==
    (input.fn = "mach_key_with_code" /\ output.status = "returned") =>
        ResultFollows(AlternateAsWell)

(* A key of the region SOFIJSKA got the code of a record whose part 1     *)
(* names "Sofiya", the only record of the response                         *)
C17_Witness ==
    /\ input.fn = "mach_key_with_code"
    /\ output.status = "returned"
    /\ input.key[1] = SOFIJSKA
    /\ Len(input.rows) = 1
    /\ Contains(PyLower(input.rows[1].name[1]), Sofiya)
    /\ output.value = SettlementDataTuple(input.key, input.rows[1].code)

====
